---- MODULE Spec2Model ----
(***************************************************************************)
(* Price tracking of luizg135/api-jogos.                                   *)
(*                                                                         *)
(*   services/price_scraper_service.py  the batch run (run_scraper), its   *)
(*                                      price parser and its two scrapers  *)
(*   services/price_tracker_service.py  the retrying scrapers              *)
(*   services/game_service.py           promotion check and notifications  *)
(*                                                                         *)
(* A Python str is a sequence of one-character strings.  The letters with  *)
(* diacritics are written as two-character tokens: "a~" is a-tilde, "c,"   *)
(* is c-cedilla, "a'" is a-acute, "i'" is i-acute.                         *)
(***************************************************************************)
EXTENDS Integers, Sequences, FiniteSets, TLC

VARIABLES
    sheet,      \* worksheet 'Desejos': [hdr: header row, rows: data rows], cells are display text
    history,    \* worksheet 'Historico de Precos': sequence of price-history records
    clock,      \* wall clock, in seconds
    cache,      \* price_scraper_service._data_cache['Desejos'] and _last_cache_update
    run,        \* the run_scraper call in progress (its locals), or its result
    ghost,      \* bookkeeping of the batch runs, read by the properties only
    search,     \* the search_game_price call in progress (its locals), or its result
    notes,      \* worksheet 'Notificações' and game_service's cached copy of it
    pass,       \* the get_all_game_data call in progress (its locals), or its result
    agg,        \* the get_best_match_for_game call in progress (its locals), or its result
    calc        \* a conversion applied on its own: its argument and its results

vars == <<sheet, history, clock, cache, run, ghost, search, notes, pass, agg, calc>>

(***************************************************************************)
(* Bounds of the model.                                                    *)
(***************************************************************************)
MaxRuns == 2        \* batch runs started
MaxGames == 3       \* rows handed to batch runs, over all runs
MaxTicks == 1       \* clock advances between batch runs

(***************************************************************************)
(* Python strings.                                                         *)
(***************************************************************************)
Digit == {"0", "1", "2", "3", "4", "5", "6", "7", "8", "9"}

DigitVal(c) ==
    CASE c = "0" -> 0 [] c = "1" -> 1 [] c = "2" -> 2 [] c = "3" -> 3
      [] c = "4" -> 4 [] c = "5" -> 5 [] c = "6" -> 6 [] c = "7" -> 7
      [] c = "8" -> 8 [] c = "9" -> 9

DigitChar(d) == <<"0", "1", "2", "3", "4", "5", "6", "7", "8", "9">>[d + 1]

\* str(n) for an int n >= 0
RECURSIVE IntStr(_)
IntStr(n) == IF n < 10 THEN <<DigitChar(n)>> ELSE IntStr(n \div 10) \o <<DigitChar(n % 10)>>

\* int(s) for a string of digits
RECURSIVE DigitsVal(_)
DigitsVal(s) ==
    IF s = <<>> THEN 0 ELSE 10 * DigitsVal(SubSeq(s, 1, Len(s) - 1)) + DigitVal(s[Len(s)])

AllDigits(s) == s /= <<>> /\ \A i \in 1..Len(s) : s[i] \in Digit

UpperLetters ==
    <<"A", "B", "C", "D", "E", "F", "G", "H", "I", "J", "K", "L", "M", "N", "O", "P", "Q",
      "R", "S", "T", "U", "V", "W", "X", "Y", "Z", "A~", "C,", "I'">>
LowerLetters ==
    <<"a", "b", "c", "d", "e", "f", "g", "h", "i", "j", "k", "l", "m", "n", "o", "p", "q",
      "r", "s", "t", "u", "v", "w", "x", "y", "z", "a~", "c,", "i'">>

LowerChar(c) ==
    IF \E i \in 1..Len(UpperLetters) : UpperLetters[i] = c
    THEN LowerLetters[CHOOSE i \in 1..Len(UpperLetters) : UpperLetters[i] = c]
    ELSE c

\* str.lower()
Lower(s) == [i \in 1..Len(s) |-> LowerChar(s[i])]

\* str.strip()
RECURSIVE Strip(_)
Strip(s) ==
    IF s = <<>> THEN s
    ELSE IF s[1] = " " THEN Strip(Tail(s))
    ELSE IF s[Len(s)] = " " THEN Strip(SubSeq(s, 1, Len(s) - 1))
    ELSE s

StartsWith(s, p) == Len(p) <= Len(s) /\ SubSeq(s, 1, Len(p)) = p

\* p in s
Contains(s, p) == \E i \in 1..(Len(s) - Len(p) + 1) : SubSeq(s, i, i + Len(p) - 1) = p

\* s.replace(old, new), old not empty
RECURSIVE Replace(_, _, _)
Replace(s, old, new) ==
    IF s = <<>> THEN s
    ELSE IF StartsWith(s, old) THEN new \o Replace(SubSeq(s, Len(old) + 1, Len(s)), old, new)
    ELSE <<s[1]>> \o Replace(Tail(s), old, new)

\* s.split(sep)[-1]: what follows the last occurrence of sep (all of s when there is none)
RECURSIVE LastPart(_, _)
LastPart(s, sep) ==
    IF Contains(s, sep)
    THEN LET i == CHOOSE j \in 1..Len(s) :
                     /\ SubSeq(s, j, j + Len(sep) - 1) = sep
                     /\ \A k \in 1..(j - 1) : SubSeq(s, k, k + Len(sep) - 1) /= sep
         IN  LastPart(SubSeq(s, i + Len(sep), Len(s)), sep)
    ELSE s

STR_NAO_ENCONTRADO == <<"N", "a~", "o", " ", "e", "n", "c", "o", "n", "t", "r", "a", "d", "o">>
STR_GRATUITO == <<"G", "r", "a", "t", "u", "i", "t", "o">>
STR_RS == <<"R", "$">>

(***************************************************************************)
(* Python values held in a cell of the DataFrame: a str or a number.       *)
(***************************************************************************)
PyStr(s) == [t |-> "str", s |-> s, n |-> 0]
PyNum(n) == [t |-> "num", s |-> <<>>, n |-> n]

(***************************************************************************)
(* Python floats of the price parser: float('inf') or a whole number.      *)
(***************************************************************************)
INF == [inf |-> TRUE, v |-> 0]
Fin(n) == [inf |-> FALSE, v |-> n]
FloatLt(a, b) == ~a.inf /\ (b.inf \/ a.v < b.v)
FloatLe(a, b) == a = b \/ FloatLt(a, b)

\* re.search(r'\d[\d\.]*', s).group(0), <<>> when there is no match
RECURSIVE NumberRun(_)
NumberRun(s) ==
    IF s = <<>> \/ ~(s[1] \in Digit \cup {"."}) THEN <<>>
    ELSE <<s[1]>> \o NumberRun(Tail(s))

RECURSIVE FirstNumber(_)
FirstNumber(s) ==
    IF s = <<>> THEN <<>>
    ELSE IF s[1] \in Digit THEN NumberRun(s)
    ELSE FirstNumber(Tail(s))

DotCount(s) == Cardinality({i \in 1..Len(s) : s[i] = "."})

\* a conversion that drops the cents
CeilOfDecimal_Truncate(m) ==
    IF DotCount(m) = 0 THEN DigitsVal(m)
    ELSE DigitsVal(SubSeq(m, 1, (CHOOSE i \in 1..Len(m) : m[i] = ".") - 1))

\* math.ceil(float(m)) of a match m with at most one dot
CeilOfDecimal(m) ==
    IF DotCount(m) = 0 THEN DigitsVal(m)
    ELSE LET d == CHOOSE i \in 1..Len(m) : m[i] = "."
             frac == SubSeq(m, d + 1, Len(m))
         IN  DigitsVal(SubSeq(m, 1, d - 1))
               + (IF \E i \in 1..Len(frac) : frac[i] /= "0" THEN 1 ELSE 0)

clean_price_to_float(price) ==
    IF price.t /= "str" THEN INF
    ELSE LET low == Strip(Lower(price.s))
             cleaned == Strip(Replace(Replace(Replace(price.s, <<"r", "$">>, <<>>),
                                              <<".">>, <<>>), <<",">>, <<".">>))
             m == FirstNumber(cleaned)
         IN  IF \/ Contains(low, Lower(STR_GRATUITO))
                \/ Contains(low, <<"f", "r", "e", "e">>)
                \/ Contains(low, <<"g", "r", "a'", "t", "i", "s">>)
             THEN Fin(0)
             ELSE IF \/ Contains(low, Lower(STR_NAO_ENCONTRADO))
                     \/ Contains(low, <<"p", "r", "e", "c,", "o", " ", "i", "n", "d", "i", "s",
                                        "p", "o", "n", "i'", "v", "e", "l">>)
             THEN INF
             ELSE IF m = <<>> THEN INF
             ELSE IF DotCount(m) > 1 THEN INF
             ELSE Fin(CeilOfDecimal(m))

format_float_to_price_str(price_float) ==
    IF price_float = Fin(0) THEN <<"0">>
    ELSE IF price_float = INF THEN STR_NAO_ENCONTRADO
    ELSE IntStr(price_float.v)

(***************************************************************************)
(* The scrapers of price_scraper_service.py.  A response is what the HTTP  *)
(* request gave: ok = FALSE is a requests.RequestException (network error, *)
(* timeout, non-2xx status).  A tile is one search result: whether it has  *)
(* a title element, the fuzz.ratio of its cleaned title against the        *)
(* cleaned game name, whether the anchor has an href, whether it has a     *)
(* price element, and that element's text.                                 *)
(***************************************************************************)
SIMILARITY_THRESHOLD == 70
MAX_TILES == 5

FormatError == [raised |-> FALSE, found |-> FALSE, price_float |-> INF, similarity_score |-> 0]
Raised == [raised |-> TRUE, found |-> FALSE, price_float |-> INF, similarity_score |-> 0]
Found(price_str, score) ==
    [raised |-> FALSE, found |-> TRUE,
     price_float |-> clean_price_to_float(PyStr(price_str)), similarity_score |-> score]

IsFreeText(text) ==
    \/ Contains(Lower(text), Lower(STR_GRATUITO))
    \/ Contains(Lower(text), <<"f", "r", "e", "e">>)
    \/ Contains(Lower(text), <<"g", "r", "a'", "t", "i", "s">>)

\* the tile the loop keeps: the first one of the strictly highest score above 0
RECURSIVE BestTile(_, _, _, _)
BestTile(tiles, i, best, highest) ==
    IF i > Len(tiles) THEN [best |-> best, highest |-> highest]
    ELSE IF tiles[i].title /\ tiles[i].score > highest
         THEN BestTile(tiles, i + 1, i, tiles[i].score)
         ELSE BestTile(tiles, i + 1, best, highest)

SteamPriceStr(tile) ==
    IF ~tile.price THEN STR_NAO_ENCONTRADO
    ELSE LET price_text == Strip(tile.text)
             price_text_value == Strip(LastPart(price_text, STR_RS))
         IN  IF IsFreeText(price_text) THEN STR_GRATUITO
             ELSE IF price_text_value /= <<>> THEN STR_RS \o <<" ">> \o price_text_value
             ELSE STR_NAO_ENCONTRADO

SteamSearch(resp) ==
    IF ~resp.ok THEN FormatError
    ELSE LET search_results == SubSeq(resp.tiles, 1, IF Len(resp.tiles) < MAX_TILES
                                                     THEN Len(resp.tiles) ELSE MAX_TILES)
             b == BestTile(search_results, 1, 0, 0)
         IN  IF search_results = <<>> THEN FormatError
             ELSE IF b.best = 0 \/ b.highest < SIMILARITY_THRESHOLD THEN FormatError
             ELSE IF ~search_results[b.best].href THEN Raised     \* best_match_element['href']
             ELSE Found(SteamPriceStr(search_results[b.best]), b.highest)

PsnPriceStr(el) ==
    IF ~el.price THEN STR_NAO_ENCONTRADO
    ELSE IF IsFreeText(Strip(el.text)) THEN STR_GRATUITO
    ELSE Strip(el.text)

\* resp.page: the page's own h1 title (has, score) and the first price span of the document
PsnSearch(resp) ==
    IF ~resp.ok THEN FormatError
    ELSE LET tiles == SubSeq(resp.tiles, 1, IF Len(resp.tiles) < MAX_TILES
                                            THEN Len(resp.tiles) ELSE MAX_TILES)
             pageHit == resp.page.title /\ resp.page.score >= SIMILARITY_THRESHOLD
             b == BestTile(tiles, 1, 0, IF pageHit THEN resp.page.score ELSE 0)
         IN  IF (~pageHit /\ b.best = 0) \/ b.highest < SIMILARITY_THRESHOLD THEN FormatError
             ELSE IF b.best = 0 THEN Found(PsnPriceStr(resp.page), b.highest)
             ELSE Found(PsnPriceStr(tiles[b.best]), b.highest)

(***************************************************************************)
(* The worksheet and its reads and writes (gspread).                       *)
(***************************************************************************)
C_NOME == "Nome"
C_STATUS == "Status"
C_SA == "Steam Preco Atual"
C_SL == "Steam Menor Preco Historico"
C_PA == "PSN Preco Atual"
C_PL == "PSN Menor Preco Historico"
C_UA == "Ultima Atualizacao"
target_gsheet_columns == <<C_SA, C_SL, C_PA, C_PL, C_UA>>

Range(seq) == {seq[i] : i \in 1..Len(seq)}
IndexOf(seq, x) == CHOOSE i \in 1..Len(seq) : seq[i] = x /\ \A j \in 1..(i - 1) : seq[j] /= x
CellAt(row, j) == IF j <= Len(row) THEN row[j] ELSE <<>>
Pad(row, n) == [j \in 1..(IF n > Len(row) THEN n ELSE Len(row)) |-> CellAt(row, j)]

\* the cell of a column by name, <<>> when the sheet has no such column
StoredCell(sh, r, col) ==
    IF col \in Range(sh.hdr) THEN CellAt(sh.rows[r], IndexOf(sh.hdr, col)) ELSE <<>>

\* gspread's numericise: a cell that looks like a number is returned as a number
ReadValue(cell, numericise) ==
    IF numericise /\ AllDigits(cell) THEN PyNum(DigitsVal(cell)) ELSE PyStr(cell)

\* worksheet.get_all_records(): one dict per data row, keyed by the header
get_all_records(sh, numericise) ==
    [r \in 1..Len(sh.rows) |->
        [c \in Range(sh.hdr) |-> ReadValue(CellAt(sh.rows[r], IndexOf(sh.hdr, c)), numericise)]]

\* what a value written by worksheet.update() displays as
Display(v) == IF v.t = "num" THEN IntStr(v.n) ELSE v.s

\* worksheet.update(values, range): row r of values goes to positions first.. of data row r
WriteRange(sh, first, values) ==
    [sh EXCEPT !.rows =
        [r \in 1..Len(sh.rows) |->
            LET w == Len(values[r])
                old == Pad(sh.rows[r], first + w - 1)
            IN  [j \in 1..Len(old) |->
                    IF j >= first /\ j < first + w THEN Display(values[r][j - first + 1])
                    ELSE old[j]]]]

(***************************************************************************)
(* run_scraper.                                                            *)
(***************************************************************************)
_cache_ttl_seconds == 300
SECONDS_PER_DAY == 86400

\* datetime.strftime('%Y-%m-%d'): the day, written "d<day>"
DateStr(t) == <<"d">> \o IntStr(t \div SECONDS_PER_DAY)

CacheFresh == cache.has /\ clock - cache.at < _cache_ttl_seconds

\* pd.DataFrame(data) with the missing target columns filled in (lines 395-410)
MakeFrame(data) ==
    [r \in 1..Len(data) |->
        [c \in (DOMAIN data[r]) \cup Range(target_gsheet_columns) |->
            IF c \in DOMAIN data[r] THEN data[r][c] ELSE PyStr(STR_NAO_ENCONTRADO)]]

\* a run that never replaces the stored low
NewLow_Keep(result, historical) == historical

\* the historical low after one search (lines 437-448 and 455-466)
NewLow(result, historical) ==
    IF FloatLt(result.price_float, clean_price_to_float(historical))
    THEN PyStr(format_float_to_price_str(result.price_float))
    ELSE IF clean_price_to_float(historical) = INF /\ result.found
    THEN PyStr(format_float_to_price_str(result.price_float))
    ELSE historical

RecordPrice(row, curCol, lowCol, result) ==
    [row EXCEPT ![curCol] = PyStr(format_float_to_price_str(result.price_float)),
                ![lowCol] = NewLow(result, row[lowCol])]

NameIsEmpty(v) == v.t = "str" /\ Strip(v.s) = <<>>

IdleRun ==
    [pc |-> "idle", df |-> <<>>, idx |-> 0, date |-> <<>>, first |-> 0, last |-> 0,
     status |-> "none", obs |-> <<>>]

MinFloat(a, b) == IF FloatLt(b, a) THEN b ELSE a

(***************************************************************************)
(* What the storefronts answer: the inputs of the model.                   *)
(***************************************************************************)
T_250 == <<"R", "$", " ", "2", ",", "5", "0">>                          \* R$ 2,50
T_100 == <<"R", "$", " ", "1", ",", "0", "0">>                          \* R$ 1,00
T_SALE == <<"R", "$", " ", "9", ",", "0", "0", "R", "$", " ", "1", ",", "0", "0">>
T_FREE == <<"G", "r", "a", "t", "u", "i", "t", "o">>

Tile(score, text) == [title |-> TRUE, score |-> score, href |-> TRUE, price |-> TRUE, text |-> text]
Page(tiles) == [ok |-> TRUE, tiles |-> tiles]
NoPageTitle == [title |-> FALSE, score |-> 0, price |-> FALSE, text |-> <<>>]

SteamResponses ==
    { [ok |-> FALSE, tiles |-> <<>>],                                    \* RequestException
      Page(<<>>),                                                        \* no result rows
      Page(<<Tile(SIMILARITY_THRESHOLD - 1, T_100)>>),                   \* below the threshold
      Page(<<[Tile(100, T_100) EXCEPT !.title = FALSE]>>),               \* tile without title
      Page(<<[Tile(100, T_100) EXCEPT !.href = FALSE]>>),                \* anchor without href
      Page(<<[Tile(100, <<>>) EXCEPT !.price = FALSE]>>),                \* no price element
      Page(<<Tile(SIMILARITY_THRESHOLD, T_250)>>),
      Page(<<Tile(80, T_250), Tile(90, T_SALE)>>),
      Page(<<Tile(100, T_FREE)>>) }

PsnResponses ==
    { [ok |-> FALSE, page |-> NoPageTitle, tiles |-> <<>>],
      [ok |-> TRUE, page |-> NoPageTitle, tiles |-> <<>>],
      [ok |-> TRUE, page |-> NoPageTitle, tiles |-> <<Tile(SIMILARITY_THRESHOLD - 1, T_100)>>],
      [ok |-> TRUE, page |-> [title |-> TRUE, score |-> 85, price |-> TRUE, text |-> T_250],
       tiles |-> <<Tile(80, T_100)>>],
      [ok |-> TRUE, page |-> NoPageTitle, tiles |-> <<Tile(SIMILARITY_THRESHOLD, T_100)>>],
      [ok |-> TRUE, page |-> NoPageTitle, tiles |-> <<Tile(100, T_FREE)>>] }

(***************************************************************************)
(* The sheets a batch run may find.  The column order is the one           *)
(* update_wish_in_sheet's column_map fixes; a sheet the tracker never ran  *)
(* on lacks the tracked columns.                                           *)
(***************************************************************************)
NAME_A == <<"A">>
NAME_B == <<"B">>

InitSheets ==
    { [hdr |-> <<C_NOME, C_STATUS>>,
       rows |-> << <<NAME_A, <<>> >>, <<NAME_B, <<>> >> >>],
      [hdr |-> <<C_NOME, C_STATUS, C_SA, C_SL, C_PA, C_PL>>,
       rows |-> << <<NAME_A, <<>>, <<"3">>, <<"1">>, STR_NAO_ENCONTRADO, STR_NAO_ENCONTRADO>> >>],
      [hdr |-> <<C_NOME, C_STATUS, C_SA, C_SL, C_PA, C_PL, C_UA>>,
       rows |-> << << <<>>, <<>>, <<"1">>, <<"2">>, <<>>, <<"5">>, <<>> >>,
                   <<NAME_B, <<>>, STR_NAO_ENCONTRADO, <<"1">>, <<"0">>, <<"0">>, DateStr(0)>> >>] }

IdleSearch ==
    [pc |-> "idle", scraper |-> "none", platform |-> "none", num_results |-> 0,
     attempt |-> 0, requests |-> 0, waits |-> <<>>, ok |-> FALSE, response |-> <<>>,
     list |-> FALSE, items |-> <<>>, raised |-> FALSE, count |-> 0]

NoCache == [has |-> FALSE, data |-> <<>>, at |-> 0]

\* a write that leaves the cached copy in place
_invalidate_cache_Not(c) == c

\* _invalidate_cache of both services: the cached data is deleted, the time of the last
\* update stays
_invalidate_cache(c) == [c EXCEPT !.has = FALSE, !.data = <<>>]

\* game_service: the notification rows, and _data_cache / _last_cache_update for the
\* sheets 'Notificações' (ncache) and 'Desejos' (wcache)
NoNotes == [rows |-> <<>>, ncache |-> NoCache, wcache |-> NoCache]

\* what a call on the notifications was given, found and returned
NoCall == [op |-> "none", type |-> "", message |-> <<>>, id |-> 0, success |-> FALSE,
           before |-> <<>>]

IdlePass ==
    [pc |-> "idle", now |-> 0, list |-> <<>>, idx |-> 0, log |-> <<>>,
     count |-> 0,           \* get_all_game_data calls started
     ticks |-> 0,           \* clock advances
     updates |-> 0,         \* update_wish_in_sheet calls
     readFailed |-> FALSE,  \* a read of the notifications sheet failed
     failed |-> FALSE,      \* the call ended in its except clause, returning nothing
     hit |-> FALSE,         \* the wishlist of the call came from the cache
     age |-> 0,             \* and the age of that cached copy, in seconds
     dropped |-> FALSE,     \* an update of a wish has invalidated a cached wishlist
     calls |-> 0,           \* notifications offered outside the promotion check
     last |-> NoCall]       \* the last such call, or mark_notification_as_read call

IdleCalc ==
    [pc |-> "idle",
     parts |-> [prefix |-> <<>>, whole |-> 0, cents |-> <<>>],   \* the price text, by component
     text |-> <<>>,      \* the argument of clean_price_to_float
     price |-> INF,      \* its result
     shown |-> <<>>,     \* format_float_to_price_str of that
     title |-> <<>>,     \* the argument of the first _clean_game_title call
     outs |-> <<>>]      \* the result of each _clean_game_title call, each applied to the last

IdleAggregator ==
    [pc |-> "idle", game_name |-> <<>>, steam_results |-> <<>>, psn_results |-> <<>>,
     final_results |-> <<>>, count |-> 0]

InitGhost ==
    [runs |-> 0,            \* batch runs started
     games |-> 0,           \* rows handed to batch runs
     ticks |-> 0,           \* clock advances
     rowsAtStart |-> <<>>,  \* the data rows when the current run started
     dataWrites |-> 0,      \* update calls of the current run that wrote data rows
     entered |-> FALSE,     \* the current run reached its per-game loop
     committing |-> FALSE,  \* the current run reached its final update call
     observed |-> 0,        \* searches of the current run whose result was recorded
     histAtStart |-> 0,     \* length of the price-history log when the current run started
     lowest |-> <<>>,       \* per row and platform, the lowest numeric price committed so far
     events |-> <<>>]       \* the searches and the pauses of the current run, in order

Init ==
    /\ sheet \in InitSheets
    /\ history = <<>>
    /\ clock = 0
    /\ cache = [has |-> FALSE, data |-> <<>>, at |-> 0]
    /\ run = IdleRun
    /\ search = IdleSearch
    /\ notes = NoNotes
    /\ pass = IdlePass
    /\ agg = IdleAggregator
    /\ calc = IdleCalc
    /\ ghost = [InitGhost EXCEPT !.lowest = [r \in 1..Len(sheet.rows) |-> [p \in {C_SA, C_PA} |-> INF]]]

\* time passes: less than the cache's time to live, exactly it, or a day
Tick ==
    /\ run.pc = "done"
    /\ ghost.ticks < MaxTicks
    /\ \E d \in {1, _cache_ttl_seconds, SECONDS_PER_DAY} : clock' = clock + d
    /\ ghost' = [ghost EXCEPT !.ticks = @ + 1]
    /\ UNCHANGED <<sheet, history, cache, run, search, notes, pass, agg, calc>>

\* lines 381-414: the date, the data (by the cache, lines 88-115) and the DataFrame
RunLoad ==
    /\ run.pc \in {"idle", "done"}
    /\ ghost.runs < MaxRuns
    /\ ghost.games + Len(sheet.rows) <= MaxGames
    /\ \E numericise \in BOOLEAN, readOk \in BOOLEAN :
          LET data == IF CacheFresh THEN cache.data
                      ELSE IF readOk THEN get_all_records(sheet, numericise)
                      ELSE <<>>
              started == [IdleRun EXCEPT !.date = DateStr(clock)]
          IN  /\ cache' = IF ~CacheFresh /\ readOk
                          THEN [has |-> TRUE, data |-> data, at |-> clock]
                          ELSE cache
              /\ run' = IF data = <<>> \/ ~(C_NOME \in DOMAIN data[1])
                        THEN [started EXCEPT !.pc = "done", !.status = "error"]
                        ELSE [started EXCEPT !.pc = "headers", !.df = MakeFrame(data),
                                             !.obs = [r \in 1..Len(data) |->
                                                        [p \in {C_SA, C_PA} |-> INF]]]
    /\ ghost' = [ghost EXCEPT !.runs = @ + 1, !.games = @ + Len(sheet.rows), !.rowsAtStart = sheet.rows, !.dataWrites = 0,
                              !.entered = FALSE, !.committing = FALSE, !.observed = 0,
                              !.histAtStart = Len(history), !.events = <<>>]
    /\ UNCHANGED <<sheet, history, clock, search, notes, pass, agg, calc>>

\* the header with the missing target columns appended, the first k of them
RECURSIVE AddColumns(_, _, _)
AddColumns(hdr, cols, k) ==
    IF cols = <<>> \/ k = 0 THEN hdr
    ELSE IF Head(cols) \in Range(hdr) THEN AddColumns(hdr, Tail(cols), k)
    ELSE AddColumns(Append(hdr, Head(cols)), Tail(cols), k - 1)

MissingColumns(hdr) == {c \in Range(target_gsheet_columns) : c \notin Range(hdr)}

\* lines 416-423: row_values(1), then one update_cell per missing column; ok = FALSE is a
\* gspread error at the call after k columns were added
RunHeaders ==
    /\ run.pc = "headers"
    /\ \E ok \in BOOLEAN, k \in 0..Cardinality(MissingColumns(sheet.hdr)) :
          /\ ok => k = Cardinality(MissingColumns(sheet.hdr))
          /\ ~ok => k < Cardinality(MissingColumns(sheet.hdr)) \/ k = 0
          /\ sheet' = [sheet EXCEPT !.hdr = AddColumns(sheet.hdr, target_gsheet_columns, k)]
          /\ run' = IF ok
                    THEN [run EXCEPT !.pc = IF Len(run.df) = 0 THEN "commit" ELSE "loop",
                                     !.idx = 1,
                                     !.first = IndexOf(sheet'.hdr, target_gsheet_columns[1]),
                                     !.last = IndexOf(sheet'.hdr, target_gsheet_columns[5])]
                    ELSE [run EXCEPT !.pc = "done", !.status = "error"]
          /\ ghost' = [ghost EXCEPT !.entered = ok]
    /\ UNCHANGED <<history, clock, cache, search, notes, pass, agg, calc>>

\* lines 431 and 452: a search_game_price call, which returns before the next line runs
Searched(events, r, p) == Append(events, [kind |-> "search", row |-> r, platform |-> p])

\* a loop that goes from one game to the next without waiting
Slept_Never(events) == events

\* line 470: time.sleep(0.5) at the end of a game
Slept(events) == Append(events, [kind |-> "sleep", row |-> 0, platform |-> C_NOME])

AfterGame(r) ==
    [r EXCEPT !.idx = @ + 1, !.pc = IF r.idx + 1 > Len(r.df) THEN "commit" ELSE "loop"]

\* lines 425-429: a row with no name is skipped
RunSkip ==
    /\ run.pc = "loop"
    /\ NameIsEmpty(run.df[run.idx][C_NOME])
    /\ run' = AfterGame(run)
    /\ UNCHANGED <<sheet, history, clock, cache, ghost, search, notes, pass, agg, calc>>

\* lines 431-448: the Steam search of the current game
RunSteam ==
    /\ run.pc = "loop"
    /\ ~NameIsEmpty(run.df[run.idx][C_NOME])
    /\ \E resp \in SteamResponses :
          LET result == SteamSearch(resp)
          IN  IF result.raised
              THEN /\ run' = [run EXCEPT !.pc = "done", !.status = "error"]   \* lines 495-498
                   /\ UNCHANGED ghost
              ELSE /\ run' = [run EXCEPT !.pc = "psn",
                                !.df[run.idx] = RecordPrice(@, C_SA, C_SL, result),
                                !.obs[run.idx][C_SA] = result.price_float]
                   /\ ghost' = [ghost EXCEPT !.observed = @ + 1,
                                             !.events = Searched(@, run.idx, C_SA)]
    /\ UNCHANGED <<sheet, history, clock, cache, search, notes, pass, agg, calc>>

\* a run that writes each game's values to the sheet as soon as it has them
RunPsn_WriteThrough ==
    /\ run.pc = "psn"
    /\ \E resp \in PsnResponses :
          LET result == PsnSearch(resp)
          IN  run' = AfterGame([run EXCEPT
                         !.df[run.idx] = [RecordPrice(@, C_PA, C_PL, result)
                                            EXCEPT ![C_UA] = PyStr(run.date)],
                         !.obs[run.idx][C_PA] = result.price_float])
    /\ sheet' = WriteRange(sheet, run.first,
                           [r \in 1..Len(run.df) |-> [k \in 1..5 |-> run'.df[r][target_gsheet_columns[k]]]])
    /\ ghost' = [ghost EXCEPT !.observed = @ + 1]
    /\ UNCHANGED <<history, clock, cache, search, notes, pass, agg, calc>>

\* lines 451-470: the PSN search of the current game, and the date of the update
RunPsn ==
    /\ run.pc = "psn"
    /\ \E resp \in PsnResponses :
          LET result == PsnSearch(resp)
          IN  run' = AfterGame([run EXCEPT
                         !.df[run.idx] = [RecordPrice(@, C_PA, C_PL, result)
                                            EXCEPT ![C_UA] = PyStr(run.date)],
                         !.obs[run.idx][C_PA] = result.price_float])
    /\ ghost' = [ghost EXCEPT !.observed = @ + 1,
                              !.events = Slept(Searched(@, run.idx, C_PA))]
    /\ UNCHANGED <<sheet, history, clock, cache, search, notes, pass, agg, calc>>

\* lines 473-479: the five target values of every row, in the order of target_gsheet_columns
Updates(df) == [r \in 1..Len(df) |-> [k \in 1..5 |-> df[r][target_gsheet_columns[k]]]]

\* a run that reports success whether or not its update call succeeded
RunCommit_Optimistic ==
    /\ run.pc = "commit"
    /\ \E ok \in BOOLEAN :
          /\ sheet' = IF ok /\ run.last - run.first + 1 >= 5
                       THEN WriteRange(sheet, run.first, Updates(run.df)) ELSE sheet
          /\ ghost' = [ghost EXCEPT !.committing = TRUE,
                                    !.dataWrites = IF sheet' /= sheet THEN @ + 1 ELSE @]
    /\ cache' = [cache EXCEPT !.has = FALSE]
    /\ run' = [run EXCEPT !.pc = "done", !.status = "success"]
    /\ UNCHANGED <<history, clock, search, notes, pass, agg, calc>>

\* lines 472-498: the one update call, ok = FALSE is a gspread error
RunCommit ==
    /\ run.pc = "commit"
    /\ \E ok \in BOOLEAN :
          LET fits == run.last - run.first + 1 >= 5      \* the values fit the range
          IN  IF ok /\ fits
              THEN /\ sheet' = WriteRange(sheet, run.first, Updates(run.df))
                   /\ cache' = _invalidate_cache(cache)
                   /\ run' = [run EXCEPT !.pc = "done", !.status = "success"]
                   /\ ghost' = [ghost EXCEPT !.committing = TRUE, !.dataWrites = @ + 1,
                                   !.lowest = [r \in DOMAIN @ |-> [p \in {C_SA, C_PA} |->
                                                 MinFloat(@[r][p], run.obs[r][p])]]]
              ELSE /\ run' = [run EXCEPT !.pc = "done", !.status = "error"]
                   /\ ghost' = [ghost EXCEPT !.committing = TRUE]
                   /\ UNCHANGED <<sheet, cache>>
    /\ UNCHANGED <<history, clock, search, notes, pass, agg, calc>>

Next ==
    \/ Tick
    \/ RunLoad
    \/ RunHeaders
    \/ RunSkip
    \/ RunSteam
    \/ RunPsn
    \/ RunCommit

Spec == Init /\ [][Next]_vars

(***************************************************************************)
(* Properties of the batch run.                                            *)
(***************************************************************************)
Rows == 1..Len(sheet.rows)
Named(r) == Strip(StoredCell(sheet, r, C_NOME)) /= <<>>
LowColumn(p) == IF p = C_SA THEN C_SL ELSE C_PL

\* the price a stored cell stands for: what its text parses to
StoredPrice(sh, r, col) == clean_price_to_float(PyStr(StoredCell(sh, r, col)))

Committed == run.pc = "done" /\ run.status = "success"
InProgress == run.pc \in {"headers", "loop", "psn", "commit"}

\* C1: over any sequence of batch runs the stored HistoricalLow of every game and
\* platform never increases: its value after a step is <= its value before the step.
C1_LowNeverIncreases ==
    [][\A r \in Rows : \A col \in {C_SL, C_PL} :
          FloatLe(StoredPrice(sheet', r, col), StoredPrice(sheet, r, col))]_vars

\* C2: after the observations the batch runs committed, the stored HistoricalLow of every
\* game and platform is <= the minimum of the numeric prices observed for it.
C2_LowAtMostMinimumObserved ==
    Committed =>
        \A r \in Rows : \A p \in {C_SA, C_PA} :
            FloatLe(StoredPrice(sheet, r, LowColumn(p)), ghost.lowest[r][p])

\* C3: in every state a batch run committed, for every game and platform whose
\* CurrentPrice and HistoricalLow are both numeric, HistoricalLow <= CurrentPrice.
C3_LowAtMostCurrent ==
    Committed =>
        \A r \in Rows : \A p \in {C_SA, C_PA} :
            (Named(r) /\ StoredPrice(sheet, r, p) /= INF
                      /\ StoredPrice(sheet, r, LowColumn(p)) /= INF)
            => FloatLe(StoredPrice(sheet, r, LowColumn(p)), StoredPrice(sheet, r, p))

\* a committed run left a game with a numeric low strictly below its numeric current price
C3_Witness ==
    /\ Committed
    /\ \E r \in Rows : \E p \in {C_SA, C_PA} :
          /\ Named(r) /\ StoredPrice(sheet, r, p) /= INF
          /\ FloatLt(StoredPrice(sheet, r, LowColumn(p)), StoredPrice(sheet, r, p))
          /\ StoredCell(sheet, r, C_UA) = run.date

\* C4: a failure while scraping or matching one game never aborts the batch: a run that
\* entered its per-game loop ends only after it went through every row and reached the
\* final update call.
C4_BatchSurvivesGameFailure ==
    (run.pc = "done" /\ ghost.entered) => (run.idx > Len(run.df) /\ ghost.committing)

\* C6: while games are being processed no data row of the sheet is written: the rows are
\* those the run started with until the one update call after the last game, and a run
\* that ended without that call succeeding left them as they were.
C6_SingleCommit ==
    /\ InProgress => (sheet.rows = ghost.rowsAtStart /\ ghost.dataWrites = 0)
    /\ (run.pc = "done" /\ run.status = "error") =>
            (sheet.rows = ghost.rowsAtStart /\ ghost.dataWrites = 0)
    /\ Committed => ghost.dataWrites = 1

\* every game is processed, the final update is still to come, and the values held in
\* memory differ from the stored ones
C6_Witness ==
    /\ run.pc = "commit"
    /\ run.idx > Len(run.df)
    /\ \E r \in Rows : Named(r) /\ Display(run.df[r][C_SA]) /= StoredCell(sheet, r, C_SA)

\* C18: run_scraper never raises to its caller and reports success only after its final
\* update call has completed: a finished run has the status success or error; after success
\* the sheet holds the run's values, written by its one update call; after error, whether
\* the load, a game or the final update failed, the data rows are those the run found.
C18_SuccessOnlyAfterUpdate ==
    run.pc = "done" =>
        /\ run.status \in {"success", "error"}
        /\ run.status = "success" =>
               /\ ghost.committing /\ ghost.dataWrites = 1
               /\ sheet = WriteRange(sheet, run.first, Updates(run.df))
        /\ run.status = "error" => sheet.rows = ghost.rowsAtStart

\* the final update call failed, and the prices the run had found are not in the sheet
C18_Witness ==
    /\ run.pc = "done" /\ run.status = "error"
    /\ ghost.committing
    /\ \E r \in Rows : Named(r) /\ Display(run.df[r][C_SA]) /= StoredCell(sheet, r, C_SA)

\* the sheet as the current run found it
SheetAtStart == [sheet EXCEPT !.rows = ghost.rowsAtStart]

\* C20: with the runs serialized one after the other no committed update is lost: when an
\* earlier run committed a lower price of a game and platform than the run that has just
\* committed observed, the stored HistoricalLow is no higher than the run found it.
C20_SerializedRunsLoseNothing ==
    (Committed /\ ghost.runs >= 2) =>
        \A r \in Rows : \A p \in {C_SA, C_PA} :
            FloatLt(ghost.lowest[r][p], run.obs[r][p]) =>
                FloatLe(StoredPrice(sheet, r, LowColumn(p)),
                        StoredPrice(SheetAtStart, r, LowColumn(p)))

\* the price a value held in the run's frame stands for
HeldPrice(v) == clean_price_to_float(PyStr(Display(v)))

\* a step of the run's loop that records the observation of platform p for row r
Observes(r, p) ==
    /\ run.pc = (IF p = C_SA THEN "loop" ELSE "psn")
    /\ run'.pc \in {"loop", "psn", "commit"}
    /\ run.idx = r
    /\ ~NameIsEmpty(run.df[r][C_NOME])

\* C21: an observation changes HistoricalLow only when its price is numeric and strictly
\* lower than the existing low, or when no low exists yet; otherwise the price the low
\* stands for is left as it was; CurrentPrice is always set to the observation's value.
C21_LowChangesOnlyWhenLower ==
    [][\A r \in 1..Len(run.df) : \A p \in {C_SA, C_PA} :
          Observes(r, p) =>
              LET before == run.df[r][LowColumn(p)]
                  after == run'.df[r][LowColumn(p)]
                  observed == run'.obs[r][p]
              IN  /\ run'.df[r][p] = PyStr(format_float_to_price_str(observed))
                  /\ HeldPrice(after) /= HeldPrice(before) =>
                        /\ observed /= INF
                        /\ FloatLt(observed, HeldPrice(before)) \/ HeldPrice(before) = INF
                        /\ HeldPrice(after) = observed]_vars

\* the same, of the runs whose reads gave every cell as text
C21_WhenReadAsText ==
    [][(\A r \in 1..Len(run.df) : \A c \in {C_SL, C_PL} : run.df[r][c].t = "str")
          => \A r \in 1..Len(run.df) : \A p \in {C_SA, C_PA} :
                Observes(r, p) =>
                    LET before == run.df[r][LowColumn(p)]
                        after == run'.df[r][LowColumn(p)]
                        observed == run'.obs[r][p]
                    IN  /\ run'.df[r][p] = PyStr(format_float_to_price_str(observed))
                        /\ HeldPrice(after) /= HeldPrice(before) =>
                              /\ observed /= INF
                              /\ FloatLt(observed, HeldPrice(before)) \/ HeldPrice(before) = INF
                              /\ HeldPrice(after) = observed]_vars

\* C22: a batch run handles the games one at a time in the order of the list: the Steam
\* search of a game is followed by its PSN search, that by the pause, and the pause by the
\* Steam search of a later row; no search starts before the one before it returned.
C22_OneGameAtATime ==
    LET ev == ghost.events
        IsSearch(i, p) == ev[i].kind = "search" /\ ev[i].platform = p
    IN  /\ run.pc = "psn" <=> (ev /= <<>> /\ IsSearch(Len(ev), C_SA))
        /\ \A i \in 1..Len(ev) :
              /\ i = 1 => IsSearch(i, C_SA)
              /\ (IsSearch(i, C_SA) /\ i < Len(ev)) =>
                     (IsSearch(i + 1, C_PA) /\ ev[i + 1].row = ev[i].row)
              /\ IsSearch(i, C_PA) => (i < Len(ev) /\ ev[i + 1].kind = "sleep")
              /\ (ev[i].kind = "sleep" /\ i < Len(ev)) =>
                     (IsSearch(i + 1, C_SA) /\ ev[i + 1].row > ev[i - 1].row)

\* two games were handled, pause between them
C22_Witness ==
    /\ Len(ghost.events) >= 6
    /\ ghost.events[3].kind = "sleep"
    /\ ghost.events[4].row > ghost.events[1].row

\* C10: every price observation a batch run records appends one record to the
\* price-history log (and no record is ever modified or removed).
C10_HistoryAppended ==
    /\ Committed => Len(history) = ghost.histAtStart + ghost.observed
    /\ Len(history) >= ghost.histAtStart

(***************************************************************************)
(* The retrying scrapers of price_tracker_service.py, next to the          *)
(* single-request scrapers of price_scraper_service.py.  A result row of   *)
(* a page: whether it has a title element, whether the anchor has an href, *)
(* whether it has the block that holds prices (Steam: the discount block,  *)
(* PSN: the price container), whether it has the final-price element, its  *)
(* text, the struck-through original price (<<>> when absent) and, on PSN, *)
(* whether a badge says the game is free.                                  *)
(***************************************************************************)
MAX_RETRIES == 3
RETRY_DELAY_SECONDS == 2
DEFAULT_NUM_RESULTS == 3
AGGREGATOR_NUM_RESULTS == 5
MaxSearches == 2    \* search_game_price calls

STR_PRECO_INDISPONIVEL ==
    <<"P", "r", "e", "c,", "o", " ", "i", "n", "d", "i", "s", "p", "o", "n", "i'", "v", "e", "l">>

NoneValue == [none |-> TRUE, v |-> 0]
Some(v) == [none |-> FALSE, v |-> v]

\* whether float(s) accepts s: digits with at most one dot
IsDecimal(s) ==
    /\ \A i \in 1..Len(s) : s[i] \in Digit \cup {"."}
    /\ \E i \in 1..Len(s) : s[i] \in Digit
    /\ DotCount(s) <= 1

\* round(float(s)): to the nearest whole number, a half to the even one
RoundOfDecimal(s) ==
    IF DotCount(s) = 0 THEN DigitsVal(s)
    ELSE LET d == CHOOSE i \in 1..Len(s) : s[i] = "."
             whole == DigitsVal(SubSeq(s, 1, d - 1))
             frac == SubSeq(s, d + 1, Len(s))
             rest == SubSeq(frac, 2, Len(frac))
             restZero == \A i \in 1..Len(rest) : rest[i] = "0"
         IN  IF frac = <<>> \/ DigitVal(frac[1]) < 5 THEN whole
             ELSE IF DigitVal(frac[1]) > 5 \/ ~restZero THEN whole + 1
             ELSE IF whole % 2 = 0 THEN whole ELSE whole + 1

price_to_float(price_str) ==
    IF \/ Contains(Lower(price_str), <<"i", "n", "d", "i", "s", "p", "o", "n", "i'", "v", "e", "l">>)
       \/ Contains(Lower(price_str), Lower(STR_GRATUITO))
    THEN NoneValue
    ELSE LET cleaned == Strip(Replace(Replace(Replace(price_str, STR_RS, <<>>),
                                              <<".">>, <<>>), <<",">>, <<".">>))
         IN  IF IsDecimal(cleaned) THEN Some(RoundOfDecimal(cleaned)) ELSE NoneValue

float_to_price_str(price_value) ==
    IF price_value.none THEN STR_PRECO_INDISPONIVEL
    ELSE STR_RS \o <<" ">> \o IntStr(price_value.v)

\* SteamScraper._parse_price and PsnScraper._parse_price
_parse_price(platform, price_str) ==
    IF (platform = "PSN" /\ price_str = <<>>) \/ Contains(Lower(price_str), Lower(STR_GRATUITO))
    THEN STR_GRATUITO
    ELSE float_to_price_str(price_to_float(price_str))

\* the title a tile without a title element gets, and what token_sort_ratio makes of it
STR_TITULO_INDISPONIVEL == <<"T", "i'", "t", "u", "l", "o", " ", "i", "n", "d", "i", "s", "p", "o", "n", "i'", "v", "e", "l">>
NO_TITLE_SCORE == 20

_format_error(platform) ==
    [found |-> FALSE, title |-> FALSE, name |-> <<>>, score |-> 0, final_price |-> <<>>, original_price |-> NoneValue,
     url |-> FALSE, platform |-> platform]

OriginalPrice(platform, row) ==
    IF row.strike = <<>> THEN NoneValue ELSE Some(_parse_price(platform, Strip(row.strike)))

\* lines 56-78: one parsed result of the Steam page
SteamParsed(row) ==
    [found |-> TRUE, title |-> row.title,
     name |-> IF row.title THEN Strip(row.name) ELSE STR_TITULO_INDISPONIVEL,
     score |-> row.score,
     final_price |-> IF row.price THEN _parse_price("Steam", Strip(row.text))
                     ELSE STR_PRECO_INDISPONIVEL,
     original_price |-> IF row.block THEN OriginalPrice("Steam", row) ELSE NoneValue,
     url |-> row.href, platform |-> "Steam"]

\* lines 125-153: one parsed result of the PSN page
PsnParsed(row) ==
    LET priced == IF row.block /\ row.price THEN _parse_price("PSN", Strip(row.text))
                  ELSE STR_PRECO_INDISPONIVEL
    IN  [found |-> TRUE, title |-> row.title,
         name |-> IF row.title THEN Strip(row.name) ELSE STR_TITULO_INDISPONIVEL,
         score |-> row.score,
         final_price |-> IF priced = STR_PRECO_INDISPONIVEL /\ row.badge THEN STR_GRATUITO
                         ELSE priced,
         original_price |-> IF row.block THEN OriginalPrice("PSN", row) ELSE NoneValue,
         url |-> row.href, platform |-> "PSN"]

\* lines 48-80 and 117-155: the results of a page that was received
ParsePage(platform, rows, num_results) ==
    IF rows = <<>> THEN <<_format_error(platform)>>
    ELSE [i \in 1..(IF Len(rows) < num_results THEN Len(rows) ELSE num_results) |->
             IF platform = "Steam" THEN SteamParsed(rows[i]) ELSE PsnParsed(rows[i])]

GAME_NAME == <<"H", "K">>

\* name is the text of the title element; score is fuzz.token_sort_ratio of the lowered
\* game name and the lowered title the scraper reports for the row
Row(title, href, block, price, text, strike, badge) ==
    [title |-> title, href |-> href, block |-> block, price |-> price, text |-> text,
     strike |-> strike, badge |-> badge,
     name |-> IF title THEN GAME_NAME ELSE <<>>,
     score |-> IF title THEN 100 ELSE NO_TITLE_SCORE]

T_350 == <<"R", "$", " ", "3", ",", "5", "0">>

R_PLAIN == Row(TRUE, TRUE, FALSE, TRUE, T_250, <<>>, FALSE)
R_SALE == Row(TRUE, TRUE, TRUE, TRUE, T_350, T_SALE, FALSE)
R_BARE == Row(FALSE, FALSE, FALSE, FALSE, <<>>, <<>>, FALSE)
R_FREE == Row(TRUE, TRUE, FALSE, FALSE, <<>>, <<>>, TRUE)

\* what one HTTP request of a retrying scraper gives
TrackerResponses ==
    { [ok |-> FALSE, rows |-> <<>>],
      [ok |-> TRUE, rows |-> <<>>],
      [ok |-> TRUE, rows |-> <<R_PLAIN>>],
      [ok |-> TRUE, rows |-> <<R_SALE, R_BARE, R_FREE, R_PLAIN>>] }

\* a caller asks a scraper for the price of a game
SearchCall ==
    /\ search.pc \in {"idle", "returned"}
    /\ search.count < MaxSearches
    /\ \E scraper \in {"tracker", "batch"} : \E platform \in {"Steam", "PSN"} :
       \E n \in (IF scraper = "tracker" THEN {DEFAULT_NUM_RESULTS, AGGREGATOR_NUM_RESULTS}
                 ELSE {0}) :
          search' = [IdleSearch EXCEPT !.pc = "request", !.scraper = scraper,
                                          !.platform = platform, !.num_results = n,
                                          !.count = search.count + 1]
    /\ UNCHANGED <<sheet, history, clock, cache, run, ghost, notes, pass, agg, calc>>

\* price_tracker_service.py lines 37-41 and 106-110: one attempt of the loop
TrackerRequest ==
    /\ search.pc = "request"
    /\ search.scraper = "tracker"
    /\ \E resp \in TrackerResponses :
          search' = [search EXCEPT !.requests = @ + 1, !.ok = resp.ok,
                                   !.response = IF resp.ok THEN resp.rows ELSE <<>>,
                                   !.pc = IF resp.ok THEN "parse" ELSE "sleep"]
    /\ UNCHANGED <<sheet, history, clock, cache, run, ghost, notes, pass, agg, calc>>

\* lines 42-46 and 111-115: the wait after a failed attempt, then the next attempt or,
\* the loop being exhausted, the error result
TrackerSleep ==
    /\ search.pc = "sleep"
    /\ LET wait == RETRY_DELAY_SECONDS * (search.attempt + 1)
       IN  /\ clock' = clock + wait
           /\ search' = IF search.attempt + 1 < MAX_RETRIES
                        THEN [search EXCEPT !.waits = Append(@, wait), !.attempt = @ + 1,
                                            !.pc = "request"]
                        ELSE [search EXCEPT !.waits = Append(@, wait), !.pc = "returned",
                                            !.list = TRUE,
                                            !.items = <<_format_error(search.platform)>>]
    /\ UNCHANGED <<sheet, history, cache, run, ghost, notes, pass, agg, calc>>

\* lines 48-80 and 117-155: the page is parsed and the results returned
TrackerParse ==
    /\ search.pc = "parse"
    /\ search' = [search EXCEPT !.pc = "returned", !.list = TRUE,
                                !.items = ParsePage(search.platform, search.response,
                                                    search.num_results)]
    /\ UNCHANGED <<sheet, history, clock, cache, run, ghost, notes, pass, agg, calc>>

\* price_scraper_service.py lines 185-254 and 272-369: the one request of a batch
\* scraper, and its result (a dict) or the exception it lets through
BatchRequest ==
    /\ search.pc = "request"
    /\ search.scraper = "batch"
    /\ \E resp \in (IF search.platform = "Steam" THEN SteamResponses ELSE PsnResponses) :
          LET result == IF search.platform = "Steam" THEN SteamSearch(resp)
                        ELSE PsnSearch(resp)
          IN  search' = [search EXCEPT !.requests = @ + 1, !.ok = resp.ok,
                                       !.pc = "returned", !.list = FALSE,
                                       !.raised = result.raised,
                                       !.items = IF result.raised THEN <<>> ELSE <<result>>]
    /\ UNCHANGED <<sheet, history, clock, cache, run, ghost, notes, pass, agg, calc>>

InitSearch ==
    /\ sheet = [hdr |-> <<C_NOME>>, rows |-> <<>>]
    /\ history = <<>>
    /\ clock = 0
    /\ cache = [has |-> FALSE, data |-> <<>>, at |-> 0]
    /\ run = IdleRun
    /\ ghost = InitGhost
    /\ search = IdleSearch
    /\ notes = NoNotes
    /\ pass = IdlePass
    /\ agg = IdleAggregator
    /\ calc = IdleCalc

NextSearch ==
    \/ SearchCall
    \/ TrackerRequest
    \/ TrackerSleep
    \/ TrackerParse
    \/ BatchRequest

SpecSearch == InitSearch /\ [][NextSearch]_vars

(***************************************************************************)
(* Properties of the scrapers' retries.                                    *)
(***************************************************************************)
Returned == search.pc = "returned"

\* C5: on a transient failure a platform scraper's search_game_price retries up to 3
\* times and stops at the first successful response; a search none of whose requests
\* succeeded made all 3 attempts and returned a list of exactly one not-found result,
\* raising nothing.
C5_RetriesThenNotFound ==
    /\ search.requests <= MAX_RETRIES
    /\ (Returned /\ search.ok) => Len(search.waits) = search.requests - 1
    /\ (Returned /\ ~search.ok) =>
          /\ search.requests = MAX_RETRIES
          /\ ~search.raised
          /\ search.list
          /\ Len(search.items) = 1
          /\ ~search.items[1].found

\* the same, of the retrying scrapers alone
C5_TrackerRetries ==
    search.scraper = "tracker" => C5_RetriesThenNotFound

\* the wait after the k-th failed attempt is k x RETRY_DELAY_SECONDS, so the waits grow,
\* and no wait follows a successful attempt
C24_WaitsGrow ==
    /\ \A k \in 1..Len(search.waits) : search.waits[k] = k * RETRY_DELAY_SECONDS
    /\ \A k \in 1..(Len(search.waits) - 1) : search.waits[k] < search.waits[k + 1]
    /\ (search.pc \in {"parse", "returned"} /\ search.ok) =>
          Len(search.waits) = search.requests - 1

\* C24: in the retrying scrapers the wait after the k-th failed attempt is
\* k x RETRY_DELAY_SECONDS, the waits strictly increase, a wait is only ever followed by
\* another attempt, and no wait happens after a successful attempt.
C24_WaitOnlyBeforeRetry ==
    /\ C24_WaitsGrow
    /\ Returned => Len(search.waits) < search.requests

\* C17: a scraper's search never raises on malformed markup, and a tile that cannot be
\* parsed, such as one without a title element, is left out of the candidates returned.
C17_UnparseableTileOmitted ==
    Returned =>
        /\ ~search.raised
        /\ search.list => \A i \in 1..Len(search.items) :
                              search.items[i].found => search.items[i].title

(***************************************************************************)
(* game_service.py: the promotion check of get_all_game_data and the       *)
(* notifications it stores.  The clock is Brasília time in seconds.  A     *)
(* price is a Python float held in hundredths.  A timestamp written with   *)
(* "%Y-%m-%d %H:%M:%S" is "d<day> <second of the day>"; the date alone     *)
(* ("%Y-%m-%d") is "d<day>".                                               *)
(***************************************************************************)
HOURS_FRESH == 24
RENOTIFY_DAYS == 30
MARGIN_PERCENT == 101   \* steam_lowest * 1.01
MaxPasses == 2          \* get_all_game_data calls
MaxAdvances == 2        \* clock advances between calls
MaxUpdates == 1         \* update_wish_in_sheet calls
StartDay == 40          \* the day the model starts on

C_LINK == "Link"
C_DATA == "Data Lançamento"
C_PRECO == "Preço"
TIPO_PROMOCAO == "Promoção"
STATUS_COMPRADO == <<"C", "o", "m", "p", "r", "a", "d", "o">>
NAME_AB == <<"A", "B">>

\* the columns of update_wish_in_sheet's column_map (lines 731-736), in position order
column_map == <<C_NOME, C_LINK, C_DATA, C_PRECO, C_STATUS, C_SA, C_SL, C_PA, C_PL, C_UA>>

\* datetime.strftime("%Y-%m-%d %H:%M:%S")
DateTimeStr(t) == DateStr(t) \o <<" ">> \o IntStr(t % SECONDS_PER_DAY)

\* datetime.strptime(s, "%Y-%m-%d %H:%M:%S"), none on ValueError
ParseDateTime(s) ==
    IF \E i \in 3..(Len(s) - 1) :
          /\ s[1] = "d" /\ s[i] = " "
          /\ AllDigits(SubSeq(s, 2, i - 1)) /\ AllDigits(SubSeq(s, i + 1, Len(s)))
    THEN LET i == CHOOSE j \in 3..(Len(s) - 1) : s[j] = " "
         IN  Some(DigitsVal(SubSeq(s, 2, i - 1)) * SECONDS_PER_DAY
                    + DigitsVal(SubSeq(s, i + 1, Len(s))))
    ELSE NoneValue

\* float(s) in hundredths, for a decimal of at most two places
HundredthsOf(s) ==
    IF DotCount(s) = 0 THEN 100 * DigitsVal(s)
    ELSE LET d == CHOOSE i \in 1..Len(s) : s[i] = "."
             frac == SubSeq(s, d + 1, Len(s))
         IN  100 * DigitsVal(SubSeq(s, 1, d - 1))
               + (IF Len(frac) = 0 THEN 0
                  ELSE IF Len(frac) = 1 THEN 10 * DigitVal(frac[1])
                  ELSE 10 * DigitVal(frac[1]) + DigitVal(frac[2]))

\* lines 294-300: 0.0 for whatever float() rejects
safe_float_conversion(value) ==
    LET cleaned_value == Strip(Replace(Replace(Display(value), STR_RS, <<>>), <<",">>, <<".">>))
    IN  IF IsDecimal(cleaned_value) THEN HundredthsOf(cleaned_value) ELSE 0

\* f"{x:.2f}" of a price in hundredths
Format2f(h) == IntStr(h \div 100) \o <<".", DigitChar((h % 100) \div 10), DigitChar(h % 10)>>

\* lines 451 and 457: the message of a promotion
PromotionMessage(platform, wish_name, price) ==
    <<"P", "r", "o", "m", "o", "c,", "a~", "o", " ", "n", "a", " ">> \o platform
      \o <<"!", " ", "'">> \o wish_name \o <<"'", " ", "p", "o", "r", " ", "R", "$">>
      \o Format2f(price) \o <<".">>

STR_STEAM == <<"S", "t", "e", "a", "m">>
STR_PSN == <<"P", "S", "N">>

\* _get_data_from_sheet (lines 52-80): the cached copy while it is fresh, else the rows
\* read from the sheet, else (the read failed) the empty list
GsRead(c, rows, readOk) ==
    IF c.has /\ clock - c.at < _cache_ttl_seconds
    THEN [data |-> c.data, cache |-> c, hit |-> TRUE]
    ELSE IF readOk
    THEN [data |-> rows, cache |-> [has |-> TRUE, data |-> rows, at |-> clock], hit |-> FALSE]
    ELSE [data |-> <<>>, cache |-> c, hit |-> FALSE]

\* the latest date among the notifications whose date parses (lines 180-187)
RECURSIVE LatestDate(_, _)
LatestDate(ns, latest) ==
    IF ns = <<>> THEN latest
    ELSE LET d == ParseDateTime(ns[1].Data)
         IN  LatestDate(Tail(ns),
                        IF ~d.none /\ (latest.none \/ d.v > latest.v) THEN d ELSE latest)

\* _add_notification (lines 155-212) for a promotion: the notifications after the call
_add_notification(n, sheetOk, readOk, notification_type, message_to_save, game_name, internal_link) ==
    IF ~sheetOk THEN [n |-> n, success |-> FALSE]
    ELSE LET read == GsRead(n.ncache, n.rows, readOk)
             notifications == read.data
             IsForGame(x) == x.Tipo = TIPO_PROMOCAO /\ Contains(x.Mensagem, game_name)
             existing_promotions == SelectSeq(notifications, IsForGame)
             latest_promotion_date == LatestDate(existing_promotions, NoneValue)
             row_data == [ID |-> Len(notifications) + 1, Tipo |-> notification_type,
                          Mensagem |-> message_to_save, Data |-> DateTimeStr(clock),
                          Lida |-> FALSE, Link |-> internal_link]
             duplicate ==
                 IF notification_type = TIPO_PROMOCAO /\ game_name /= <<>>
                 THEN /\ existing_promotions /= <<>>
                      /\ ~latest_promotion_date.none
                      /\ (clock - latest_promotion_date.v) \div SECONDS_PER_DAY < RENOTIFY_DAYS
                 ELSE \E i \in 1..Len(notifications) :
                         /\ notifications[i].Tipo = notification_type
                         /\ notifications[i].Mensagem = message_to_save
         IN  IF duplicate
             THEN [n |-> [n EXCEPT !.ncache = read.cache], success |-> FALSE]
             ELSE [n |-> [n EXCEPT !.rows = Append(@, row_data),
                                   !.ncache = _invalidate_cache(read.cache)],
                   success |-> TRUE]

\* lines 302-313: the wishlist with its prices as floats, bought games left out
ProcessWish(wish) ==
    LET Get(c) == IF c \in DOMAIN wish THEN wish[c] ELSE PyStr(<<"N", "o", "n", "e">>)
    IN  [Nome |-> IF C_NOME \in DOMAIN wish THEN Display(wish[C_NOME]) ELSE <<>>,
         Status |-> Display(Get(C_STATUS)),
         UA |-> IF C_UA \in DOMAIN wish THEN wish[C_UA] ELSE PyStr(<<>>),
         SA |-> safe_float_conversion(Get(C_SA)), SL |-> safe_float_conversion(Get(C_SL)),
         PA |-> safe_float_conversion(Get(C_PA)), PL |-> safe_float_conversion(Get(C_PL))]

NotBought(wish) == wish.Status /= STATUS_COMPRADO

\* lines 431-435: strptime of a value that is true and not a str raises TypeError, which
\* the except of line 434 does not catch
StrptimeRaises(wish) == wish.UA.t = "num" /\ wish.UA.n /= 0

\* lines 429-435: the time of the last update, none if the cell is empty or unparseable
last_update_datetime(wish) ==
    IF wish.UA.t = "str" THEN ParseDateTime(wish.UA.s) ELSE NoneValue

\* lines 437-441: the row was updated, by a parseable timestamp, within the last 24 hours
Fresh(wish, now) ==
    /\ ~last_update_datetime(wish).none
    /\ now - last_update_datetime(wish).v <= HOURS_FRESH * 3600

\* a check that lets no qualifying platform wait for the other
PsnPromotion_Both(wish, promotion_found) ==
    wish.PA > 0 /\ 100 * wish.PA <= MARGIN_PERCENT * wish.PL

\* a check that asks for a price strictly below the historical low
SteamPromotion_Below(wish) ==
    wish.SA > 0 /\ wish.SA < wish.SL

\* line 450: the Steam price is at most 1% above the historical low
SteamPromotion(wish) ==
    wish.SA > 0 /\ 100 * wish.SA <= MARGIN_PERCENT * wish.SL

\* line 456: the same of PSN, unless Steam already qualified
PsnPromotion(wish, promotion_found) ==
    wish.PA > 0 /\ 100 * wish.PA <= MARGIN_PERCENT * wish.PL /\ ~promotion_found

InternalLink(wish_name) == <<"d", "e", "s", "e", "j", "o", "s", ":">> \o wish_name

\* time passes between the calls
Advance ==
    /\ pass.pc \in {"idle", "done"}
    /\ pass.ticks < MaxAdvances
    /\ \E d \in {3600, 10 * SECONDS_PER_DAY, RENOTIFY_DAYS * SECONDS_PER_DAY - 3600} :
          clock' = clock + d
    /\ pass' = [pass EXCEPT !.ticks = @ + 1]
    /\ UNCHANGED <<sheet, history, cache, run, ghost, search, notes, agg, calc>>

WishUpdates ==
    { (C_SA :> 400) @@ (C_SL :> 500),
      (C_SA :> 10100) @@ (C_SL :> 10000) @@ (C_PA :> 300) @@ (C_PL :> 300),
      (C_SA :> 10200) @@ (C_SL :> 10000) @@ (C_PA :> 300) @@ (C_PL :> 300),
      (C_PA :> 0) @@ (C_PL :> 0) }

\* update_wish_in_sheet (lines 720-757): prices given as numbers and the time of the
\* update, written at the positions of column_map
UpdateWish ==
    /\ pass.pc \in {"idle", "done"}
    /\ pass.updates < MaxUpdates
    /\ \E r \in 1..Len(sheet.rows) : \E updated_data \in WishUpdates : \E stamp \in {"datetime", "date", "epoch"} :
          LET new_row == Pad(sheet.rows[r], Len(sheet.hdr))
              Value(j) ==
                  IF j > Len(column_map) THEN new_row[j]
                  ELSE IF column_map[j] \in DOMAIN updated_data
                  THEN LET h == updated_data[column_map[j]]
                       IN  IF h % 100 = 0 THEN IntStr(h \div 100) ELSE Format2f(h)
                  ELSE IF column_map[j] = C_UA
                  THEN (CASE stamp = "datetime" -> DateTimeStr(clock)
                          [] stamp = "date" -> DateStr(clock)
                          [] stamp = "epoch" -> IntStr(clock))
                  ELSE new_row[j]
          IN  sheet' = [sheet EXCEPT !.rows[r] = [j \in 1..Len(new_row) |-> Value(j)]]
    /\ notes' = [notes EXCEPT !.wcache = _invalidate_cache(@)]
    /\ pass' = [pass EXCEPT !.updates = @ + 1, !.dropped = @ \/ notes.wcache.has]
    /\ UNCHANGED <<history, clock, cache, run, ghost, search, agg, calc>>

\* get_all_game_data, lines 280-313: the time, the wishlist read and processed
PassStart ==
    /\ pass.pc \in {"idle", "done"}
    /\ pass.count < MaxPasses
    /\ \E readOk \in BOOLEAN : \E numericise \in BOOLEAN :
          LET read == GsRead(notes.wcache, get_all_records(sheet, numericise), readOk)
              processed_wishlist_data == [i \in 1..Len(read.data) |-> ProcessWish(read.data[i])]
              wishlist_data_filtered == SelectSeq(processed_wishlist_data, NotBought)
          IN  /\ notes' = [notes EXCEPT !.wcache = read.cache]
              /\ pass' = [pass EXCEPT !.pc = IF wishlist_data_filtered = <<>> THEN "done"
                                            ELSE "loop",
                                      !.now = clock, !.list = wishlist_data_filtered,
                                      !.idx = 1, !.log = <<>>, !.count = @ + 1,
                                      !.failed = FALSE, !.hit = read.hit,
                                      !.age = IF read.hit THEN clock - notes.wcache.at ELSE 0]
    /\ UNCHANGED <<sheet, history, clock, cache, run, ghost, search, agg, calc>>

\* lines 424-459: the promotion check of one wish, with the notification it stores
PassGame ==
    /\ pass.pc = "loop"
    /\ \E sheetOk \in BOOLEAN : \E readOk \in BOOLEAN :
          LET wish == pass.list[pass.idx]
              fresh == Fresh(wish, pass.now)
              steam == fresh /\ SteamPromotion(wish)
              psn == fresh /\ PsnPromotion(wish, steam)
              afterSteam ==
                  IF steam
                  THEN _add_notification(notes, sheetOk, readOk, TIPO_PROMOCAO,
                                         PromotionMessage(STR_STEAM, wish.Nome, wish.SA),
                                         wish.Nome, InternalLink(wish.Nome)).n
                  ELSE notes
              afterPsn ==
                  IF psn
                  THEN _add_notification(afterSteam, sheetOk, readOk, TIPO_PROMOCAO,
                                         PromotionMessage(STR_PSN, wish.Nome, wish.PA),
                                         wish.Nome, InternalLink(wish.Nome)).n
                  ELSE afterSteam
              entry == [wish |-> wish, fresh |-> fresh, steam |-> steam, psn |-> psn,
                        stored |-> Len(afterPsn.rows) - Len(notes.rows),
                        suppressed |-> (steam \/ psn) /\ sheetOk
                                          /\ Len(afterPsn.rows) = Len(notes.rows)]
          IN  /\ (steam \/ psn) \/ (sheetOk /\ readOk)   \* no call, nothing to fail
              /\ IF StrptimeRaises(wish)
                 THEN /\ notes' = notes                     \* lines 467-469
                      /\ pass' = [pass EXCEPT !.pc = "done", !.failed = TRUE]
                 ELSE /\ notes' = afterPsn
                      /\ pass' = [pass EXCEPT
                             !.log = Append(@, entry),
                             !.idx = @ + 1,
                             !.pc = IF pass.idx < Len(pass.list) THEN "loop" ELSE "done",
                             !.readFailed = @ \/ ((steam \/ psn) /\ sheetOk /\ ~readOk)]
    /\ UNCHANGED <<sheet, history, clock, cache, run, ghost, search, agg, calc>>

PromoSheets ==
    { [hdr |-> column_map,
       rows |-> << <<NAME_A, <<>>, <<>>, <<>>, <<>>, <<"5">>, <<"5">>,
                     STR_NAO_ENCONTRADO, STR_NAO_ENCONTRADO, DateTimeStr(StartDay * SECONDS_PER_DAY)>>,
                   <<NAME_AB, <<>>, <<>>, <<>>, <<>>, <<"3">>, <<"2">>, <<"2">>, <<"2">>,
                     DateStr(StartDay * SECONDS_PER_DAY)>> >>],
      [hdr |-> column_map,
       rows |-> << <<NAME_A, <<>>, <<>>, <<>>, STATUS_COMPRADO, <<"1">>, <<"1">>, <<"1">>, <<"1">>,
                     DateTimeStr(StartDay * SECONDS_PER_DAY)>>,
                   <<NAME_AB, <<>>, <<>>, <<>>, <<>>, <<"4">>, <<"5">>, <<"2", ",", "5", "0">>, T_250,
                     DateTimeStr(StartDay * SECONDS_PER_DAY - 3600)>> >>] }

\* a record of the sheet 'Historico de Preços': game, platform, price, day
Record(name, platform, price, day) ==
    [Nome |-> name, Plataforma |-> platform, Preco |-> price, Dia |-> day]

PromoHistories ==
    { <<>>,
      <<Record(NAME_A, C_SA, 500, StartDay - 7), Record(NAME_A, C_SA, 500, StartDay - 1),
        Record(NAME_AB, C_SA, 1000, StartDay - 7), Record(NAME_AB, C_PA, 250, StartDay - 40)>> }

InitPromo ==
    /\ sheet \in PromoSheets
    /\ history \in PromoHistories
    /\ clock = StartDay * SECONDS_PER_DAY
    /\ cache = [has |-> FALSE, data |-> <<>>, at |-> 0]
    /\ run = IdleRun
    /\ ghost = InitGhost
    /\ search = IdleSearch
    /\ notes = NoNotes
    /\ pass = IdlePass
    /\ agg = IdleAggregator
    /\ calc = IdleCalc

NextPromo ==
    \/ Advance
    \/ UpdateWish
    \/ PassStart
    \/ PassGame

SpecPromo == InitPromo /\ [][NextPromo]_vars

(***************************************************************************)
(* Properties of the promotion check.                                      *)
(***************************************************************************)
Evaluations == {pass.log[k] : k \in 1..Len(pass.log)}
Quoted(name) == <<"'">> \o name \o <<"'">>
IsPromotionOf(n, name) == n.Tipo = TIPO_PROMOCAO /\ Contains(n.Mensagem, Quoted(name))
Tried(e, p) == IF p = C_SA THEN e.steam ELSE e.psn
CurrentOf(e, p) == IF p = C_SA THEN e.wish.SA ELSE e.wish.PA
WithinMargin(cur, low) == cur > 0 /\ 100 * cur <= MARGIN_PERCENT * low
UpdatedLastDay(e) ==
    /\ ~last_update_datetime(e.wish).none
    /\ pass.now - last_update_datetime(e.wish).v <= SECONDS_PER_DAY

\* the history records of a game and platform from day first to day last
RecordsOf(name, p, first, last) ==
    SelectSeq(history, LAMBDA h : h.Nome = name /\ h.Plataforma = p
                                  /\ h.Dia >= first /\ h.Dia <= last)

RECURSIVE SumOfPrices(_)
SumOfPrices(recs) == IF recs = <<>> THEN 0 ELSE recs[1].Preco + SumOfPrices(Tail(recs))

Today == pass.now \div SECONDS_PER_DAY

\* Rule A: the current price is at most 0.80 x the mean of the trailing 30 days
BelowThirtyDayAverage(e, p) ==
    LET recs == RecordsOf(e.wish.Nome, p, Today - 30, Today)
    IN  recs /= <<>> /\ 5 * CurrentOf(e, p) * Len(recs) <= 4 * SumOfPrices(recs)

\* Rule B: the current price is at most 0.90 x the price recorded exactly 7 days earlier
WeeklyDrop(e, p) ==
    \E k \in 1..Len(history) :
        /\ history[k].Nome = e.wish.Nome /\ history[k].Plataforma = p
        /\ history[k].Dia = Today - 7
        /\ 10 * CurrentOf(e, p) <= 9 * history[k].Preco

\* C7: for any game, any two promotion notifications stored for it are at least 30 days
\* apart, over any sequence of promotion evaluations and whichever platform triggered them.
C7_PromotionsThirtyDaysApart ==
    \A name \in {NAME_A, NAME_AB} :
        \A i \in 1..Len(notes.rows) : \A j \in (i + 1)..Len(notes.rows) :
            (IsPromotionOf(notes.rows[i], name) /\ IsPromotionOf(notes.rows[j], name))
            => ParseDateTime(notes.rows[j].Data).v - ParseDateTime(notes.rows[i].Data).v
                  >= RENOTIFY_DAYS * SECONDS_PER_DAY

\* the same when every read of the notifications sheet succeeded
C7_WhenReadsSucceed ==
    ~pass.readFailed => C7_PromotionsThirtyDaysApart

AGGREGATOR_SIMILARITY_THRESHOLD == 85
MaxQueries == 1     \* get_best_match_for_game calls

IGNORE_KEYWORDS ==
    << <<"m", "o", "e", "d", "a">>,
       <<"p", "a", "c", "o", "t", "e", " ", "d", "e">>,
       <<"s", "t", "u", "b", "s">>,
       <<"c", "r", "e'", "d", "i", "t", "o", "s">>,
       <<"c", "o", "i", "n", "s">>,
       <<"p", "o", "i", "n", "t", "s">>,
       <<"v", "c">>,
       <<"b", "u", "n", "d", "l", "e">>,
       <<"d", "l", "c">>,
       <<"p", "a", "s", "s", "e", " ", "d", "e", " ", "t", "e", "m", "p", "o", "r", "a", "d", "a">>,
       <<"s", "e", "a", "s", "o", "n", " ", "p", "a", "s", "s">>,
       <<"e", "x", "p", "a", "n", "s", "a~", "o">>,
       <<"u", "p", "g", "r", "a", "d", "e">>,
       <<"d", "e", "m", "o">>,
       <<"b", "e", "t", "a">>,
       <<"s", "o", "u", "n", "d", "t", "r", "a", "c", "k">>,
       <<"a", "r", "t", "b", "o", "o", "k">>,
       <<"t", "r", "i", "l", "h", "a", " ", "s", "o", "n", "o", "r", "a">> >>

STR_EDICAO == <<"e", "d", "i", "c,", "a~", "o">>

HasIgnoredKeyword(lower_title) ==
    \E k \in 1..Len(IGNORE_KEYWORDS) : Contains(lower_title, IGNORE_KEYWORDS[k])

\* a filter that lets every title through
_is_relevant_All(title, original_game_name, similarity) == TRUE

\* lines 181-196; similarity is token_sort_ratio of the lowered name and the lowered title
_is_relevant(title, original_game_name, similarity) ==
    IF title = <<>> THEN FALSE
    ELSE IF HasIgnoredKeyword(Lower(title)) THEN FALSE
    ELSE IF /\ Contains(Lower(title), STR_EDICAO)
            /\ ~Contains(Lower(original_game_name), STR_EDICAO)
            /\ similarity < AGGREGATOR_SIMILARITY_THRESHOLD
         THEN FALSE
    ELSE TRUE

\* a comparison that lets every later candidate replace the earlier one
Improves_Always(similarity, highest) == TRUE

\* lines 220 and 224: a candidate replaces the best so far only with a strictly higher score
Improves(similarity, highest) == similarity > highest

\* an acceptance that asks for more than the threshold
Accepted_Strictly(highest) == highest > AGGREGATOR_SIMILARITY_THRESHOLD

\* lines 230 and 233
Accepted(highest) == highest >= AGGREGATOR_SIMILARITY_THRESHOLD

\* lines 208-226: the best match of one platform over all the results
RECURSIVE BestMatch(_, _, _, _, _)
BestMatch(all_results, game_name, platform, best, highest) ==
    IF all_results = <<>> THEN [best |-> best, highest |-> highest]
    ELSE LET result == Head(all_results)
             taken == /\ result.found
                      /\ _is_relevant(result.name, game_name, result.score)
                      /\ result.platform = platform
                      /\ Improves(result.score, highest)
         IN  IF taken THEN BestMatch(Tail(all_results), game_name, platform,
                                     Some(result), result.score)
             ELSE BestMatch(Tail(all_results), game_name, platform, best, highest)

\* lines 198-236: the platform's entry of final_results, none when the key is absent
get_best_match_for_game(steam_results, psn_results, game_name) ==
    LET all_results == steam_results \o psn_results
        steam == BestMatch(all_results, game_name, "Steam", NoneValue, 0)
        psn == BestMatch(all_results, game_name, "PSN", NoneValue, 0)
    IN  [Steam |-> IF ~steam.best.none /\ Accepted(steam.highest) THEN steam.best
                   ELSE NoneValue,
         PSN |-> IF ~psn.best.none /\ Accepted(psn.highest) THEN psn.best ELSE NoneValue]

T_HK2 == <<"H", "K", " ", "2">>
T_HKII == <<"H", "K", " ", "I", "I">>
T_HKDLC == <<"H", "K", " ", "D", "L", "C">>
T_HKOST == <<"H", "K", " ", "S", "o", "u", "n", "d", "t", "r", "a", "c", "k">>
T_HKED == <<"H", "K", " ", "E", "d", "i", "c,", "a~", "o">>
T_DEMON == <<"D", "e", "m", "o", "n", "s">>

Candidate(name, score) == [R_PLAIN EXCEPT !.name = name, !.score = score]

K_EXACT == Candidate(GAME_NAME, 100)
K_AT == Candidate(T_HK2, AGGREGATOR_SIMILARITY_THRESHOLD)
K_BELOW == Candidate(T_HKII, AGGREGATOR_SIMILARITY_THRESHOLD - 1)
K_DLC == Candidate(T_HKDLC, 95)
K_OST == Candidate(T_HKOST, 90)
K_EDICAO == Candidate(T_HKED, AGGREGATOR_SIMILARITY_THRESHOLD - 1)
K_DEMON == Candidate(T_DEMON, 100)

\* what a retrying scraper ends up with: no response, or a page
AggregatorResponses ==
    { [ok |-> FALSE, rows |-> <<>>],
      [ok |-> TRUE, rows |-> <<K_EXACT>>],
      [ok |-> TRUE, rows |-> <<K_AT>>],
      [ok |-> TRUE, rows |-> <<K_BELOW, R_BARE>>],
      [ok |-> TRUE, rows |-> <<K_DLC, K_AT>>],
      [ok |-> TRUE, rows |-> <<K_AT, K_EXACT>>],
      [ok |-> TRUE, rows |-> <<K_EXACT, K_AT>>],
      [ok |-> TRUE, rows |-> <<K_OST, K_EDICAO>>],
      [ok |-> TRUE, rows |-> <<K_DEMON>>],
      [ok |-> TRUE, rows |-> <<K_BELOW, K_BELOW, K_BELOW, K_BELOW, K_BELOW, K_EXACT>>] }

ScraperResults(platform, resp) ==
    IF resp.ok THEN ParsePage(platform, resp.rows, AGGREGATOR_NUM_RESULTS)
    ELSE <<_format_error(platform)>>

\* line 198: a caller asks for the best match of a game
AggregatorCall ==
    /\ agg.pc \in {"idle", "done"}
    /\ agg.count < MaxQueries
    /\ \E game_name \in {GAME_NAME, T_DEMON} :
          agg' = [IdleAggregator EXCEPT !.pc = "steam", !.game_name = game_name,
                                        !.count = agg.count + 1]
    /\ UNCHANGED <<sheet, history, clock, cache, run, ghost, search, notes, pass, calc>>

\* line 203
AggregatorSteam ==
    /\ agg.pc = "steam"
    /\ \E resp \in AggregatorResponses :
          agg' = [agg EXCEPT !.pc = "psn", !.steam_results = ScraperResults("Steam", resp)]
    /\ UNCHANGED <<sheet, history, clock, cache, run, ghost, search, notes, pass, calc>>

\* line 204
AggregatorPsn ==
    /\ agg.pc = "psn"
    /\ \E resp \in AggregatorResponses :
          agg' = [agg EXCEPT !.pc = "select", !.psn_results = ScraperResults("PSN", resp)]
    /\ UNCHANGED <<sheet, history, clock, cache, run, ghost, search, notes, pass, calc>>

\* lines 206-236
AggregatorSelect ==
    /\ agg.pc = "select"
    /\ agg' = [agg EXCEPT !.pc = "done",
                          !.final_results = get_best_match_for_game(agg.steam_results,
                                                                    agg.psn_results,
                                                                    agg.game_name)]
    /\ UNCHANGED <<sheet, history, clock, cache, run, ghost, search, notes, pass, calc>>

InitAggregator ==
    /\ sheet = [hdr |-> <<C_NOME>>, rows |-> <<>>]
    /\ history = <<>>
    /\ clock = 0
    /\ cache = [has |-> FALSE, data |-> <<>>, at |-> 0]
    /\ run = IdleRun
    /\ ghost = InitGhost
    /\ search = IdleSearch
    /\ notes = NoNotes
    /\ pass = IdlePass
    /\ agg = IdleAggregator
    /\ calc = IdleCalc

NextAggregator ==
    \/ AggregatorCall
    \/ AggregatorSteam
    \/ AggregatorPsn
    \/ AggregatorSelect

SpecAggregator == InitAggregator /\ [][NextAggregator]_vars

(***************************************************************************)
(* Properties of the aggregator.                                           *)
(***************************************************************************)
Selected == agg.pc = "done"
Platforms == {"Steam", "PSN"}
ResultsOf(p) == IF p = "Steam" THEN agg.steam_results ELSE agg.psn_results
Chosen(p) == agg.final_results[p]

\* the found candidates of a platform that carry no ignored keyword
RelevantOf(p) ==
    {k \in 1..Len(ResultsOf(p)) :
        /\ ResultsOf(p)[k].found
        /\ ~HasIgnoredKeyword(Lower(ResultsOf(p)[k].name))}

\* the highest score among them, 0 when there is none
BestScore(p) ==
    IF RelevantOf(p) = {} THEN 0
    ELSE LET k == CHOOSE i \in RelevantOf(p) :
                     \A j \in RelevantOf(p) : ResultsOf(p)[j].score <= ResultsOf(p)[i].score
         IN  ResultsOf(p)[k].score

\* C11: a platform's best candidate is accepted exactly when its similarity score is >=
\* the threshold: at exactly the threshold it is returned, one point below the platform
\* key is absent.
C11_AcceptedAtThreshold ==
    Selected =>
        \A p \in Platforms :
            ~Chosen(p).none <=> BestScore(p) >= AGGREGATOR_SIMILARITY_THRESHOLD

\* Steam's best scores exactly the threshold and is returned; PSN's best scores one less
\* and PSN is absent
C11_Witness ==
    /\ Selected
    /\ BestScore("Steam") = AGGREGATOR_SIMILARITY_THRESHOLD
    /\ ~Chosen("Steam").none /\ Chosen("Steam").v.score = AGGREGATOR_SIMILARITY_THRESHOLD
    /\ BestScore("PSN") = AGGREGATOR_SIMILARITY_THRESHOLD - 1
    /\ Chosen("PSN").none

\* C12: for each platform the candidate returned is one of that platform's found and
\* relevant candidates and has the highest score among them, in whatever order they were
\* listed and whatever the other platform returned.
C12_HighestScoreSelected ==
    Selected =>
        \A p \in Platforms :
            BestScore(p) >= AGGREGATOR_SIMILARITY_THRESHOLD =>
                /\ ~Chosen(p).none
                /\ Chosen(p).v.platform = p
                /\ \E k \in RelevantOf(p) : ResultsOf(p)[k] = Chosen(p).v
                /\ Chosen(p).v.score = BestScore(p)

\* Steam listed the lower of two acceptable candidates first and the higher one is
\* returned, while PSN's own best is a different candidate
C12_Witness ==
    /\ Selected
    /\ \E i, j \in RelevantOf("Steam") :
          /\ i < j
          /\ ResultsOf("Steam")[i].score >= AGGREGATOR_SIMILARITY_THRESHOLD
          /\ ResultsOf("Steam")[j].score > ResultsOf("Steam")[i].score
          /\ Chosen("Steam") = Some(ResultsOf("Steam")[j])
    /\ ~Chosen("PSN").none
    /\ Chosen("PSN").v.score < Chosen("Steam").v.score

\* C13: no candidate whose title contains an ignored keyword is ever returned, whatever
\* its score, and leaving such candidates out never keeps a candidate without keyword
\* that scores at or above the threshold from being returned.
C13_KeywordFilter ==
    Selected =>
        \A p \in Platforms :
            /\ ~Chosen(p).none => ~HasIgnoredKeyword(Lower(Chosen(p).v.name))
            /\ (\E k \in RelevantOf(p) :
                    ResultsOf(p)[k].score >= AGGREGATOR_SIMILARITY_THRESHOLD)
               => ~Chosen(p).none

\* a candidate with a keyword outscores the one returned
C13_Witness ==
    /\ Selected
    /\ \E p \in Platforms : \E k \in 1..Len(ResultsOf(p)) :
          /\ HasIgnoredKeyword(Lower(ResultsOf(p)[k].name))
          /\ ~Chosen(p).none
          /\ ResultsOf(p)[k].score > Chosen(p).v.score

\* the platform has nothing usable for the evaluated wish: no current price (not found and
\* unparseable cells read as 0, as does a price of zero) or no time of last update
NothingUsable(e, p) == CurrentOf(e, p) = 0 \/ last_update_datetime(e.wish).none

\* C19: in the promotion evaluation a game whose current price is not found, unparseable
\* or zero, or that has no usable last-update value, gives no promotion for that platform
\* and no error: the evaluation goes on to the remaining games.
C19_UnusableSkippedSilently ==
    /\ \A e \in Evaluations : \A p \in {C_SA, C_PA} : NothingUsable(e, p) => ~Tried(e, p)
    /\ (pass.pc = "done" /\ pass.count > 0) =>
          (~pass.failed /\ Len(pass.log) = Len(pass.list))

\* the same, while every last-update cell is read as text
C19_WhenLastUpdateIsText ==
    (\A k \in 1..Len(pass.list) : pass.list[k].UA.t = "str") => C19_UnusableSkippedSilently

(***************************************************************************)
(* run_scraper and the promotion check of get_all_game_data on the same    *)
(* sheet 'Desejos', in any interleaving.                                   *)
(***************************************************************************)
PipelineSheets ==
    { [hdr |-> column_map,
       rows |-> << <<NAME_A, <<>>, <<>>, <<>>, <<>>, <<"5">>, <<"5">>, <<"9">>, <<"4">>,
                     DateTimeStr((StartDay - 2) * SECONDS_PER_DAY)>> >>],
      [hdr |-> column_map,
       rows |-> << << <<>>, <<>>, <<>>, <<>>, <<>>, <<>>, <<>>, <<>>, <<>>, <<>> >>,
                   <<NAME_B, <<>>, <<>>, <<>>, <<>>, STR_NAO_ENCONTRADO, STR_NAO_ENCONTRADO,
                     <<"9">>, <<"4">>, <<>> >> >>] }

InitPipeline ==
    /\ sheet \in PipelineSheets
    /\ history = <<>>
    /\ clock = StartDay * SECONDS_PER_DAY
    /\ cache = [has |-> FALSE, data |-> <<>>, at |-> 0]
    /\ run = IdleRun
    /\ search = IdleSearch
    /\ notes = NoNotes
    /\ pass = IdlePass
    /\ agg = IdleAggregator
    /\ calc = IdleCalc
    /\ ghost = [InitGhost EXCEPT !.lowest = [r \in 1..Len(sheet.rows) |-> [p \in {C_SA, C_PA} |-> INF]]]

NextPipeline ==
    \/ Tick
    \/ RunLoad
    \/ RunHeaders
    \/ RunSkip
    \/ RunSteam
    \/ RunPsn
    \/ RunCommit
    \/ PassStart
    \/ PassGame

SpecPipeline == InitPipeline /\ [][NextPipeline]_vars

\* the evaluated wish carries the date of the pass as its time of last update
UpdatedOnDayOfPass(e) == e.wish.UA = PyStr(DateStr(pass.now))

\* C23: every game a batch run processed has LastUpdated set to the date of the run, and
\* the promotion check accepts that value as fresh: a game updated by a run on the day of
\* the pass whose price qualifies is evaluated for promotion, not skipped.
C23_BatchUpdateIsFresh ==
    /\ Committed => \A r \in Rows : Named(r) => StoredCell(sheet, r, C_UA) = run.date
    /\ \A e \in Evaluations :
          (UpdatedOnDayOfPass(e) /\ (SteamPromotion(e.wish) \/ PsnPromotion(e.wish, FALSE)))
              => (e.steam \/ e.psn)

\* the first half of C23 alone
C23_LastUpdatedIsRunDate ==
    Committed => \A r \in Rows : Named(r) => StoredCell(sheet, r, C_UA) = run.date

(***************************************************************************)
(* run_scraper on sheets whose header has the tracked columns in other     *)
(* places: another column between them, another order, some of them        *)
(* missing.                                                                *)
(***************************************************************************)
STR_NOTAS == <<"N", "o", "t", "a", "s">>

HeaderSheets ==
    { [hdr |-> <<C_NOME, C_STATUS>>,
       rows |-> << << <<>>, <<>> >>, <<NAME_B, <<>> >> >>],
      [hdr |-> <<C_NOME, C_SA, C_SL, C_PA, C_PL, C_LINK, C_UA>>,
       rows |-> << <<NAME_A, <<"5">>, <<"5">>, <<"9">>, <<"4">>, STR_NOTAS, DateStr(0)>> >>],
      [hdr |-> <<C_NOME, C_SA, C_PA, C_SL, C_PL, C_UA>>,
       rows |-> << <<NAME_A, <<"5">>, <<"9">>, <<"5">>, <<"4">>, DateStr(0)>> >>],
      [hdr |-> <<C_NOME, C_UA, C_LINK>>,
       rows |-> << <<NAME_A, DateStr(0), STR_NOTAS>> >>] }

InitHeaders ==
    /\ sheet \in HeaderSheets
    /\ history = <<>>
    /\ clock = 0
    /\ cache = [has |-> FALSE, data |-> <<>>, at |-> 0]
    /\ run = IdleRun
    /\ search = IdleSearch
    /\ notes = NoNotes
    /\ pass = IdlePass
    /\ agg = IdleAggregator
    /\ calc = IdleCalc
    /\ ghost = [InitGhost EXCEPT !.lowest = [r \in 1..Len(sheet.rows) |-> [p \in {C_SA, C_PA} |-> INF]]]

SpecHeaders == InitHeaders /\ [][Next]_vars

\* the final write put the run's value of every tracked column in that column's place
TrackedColumnsStored ==
    \A r \in Rows : \A k \in 1..5 :
        StoredCell(sheet, r, target_gsheet_columns[k])
            = Display(run.df[r][target_gsheet_columns[k]])

\* the cells of the other columns are those the run found
OtherColumnsKept ==
    \A r \in Rows : \A j \in 1..Len(sheet.hdr) :
        sheet.hdr[j] \notin Range(target_gsheet_columns)
            => CellAt(sheet.rows[r], j) = CellAt(ghost.rowsAtStart[r], j)

\* C25: the final batch write stores, for every row, the value of each of the five
\* tracked columns in that column's own place in the header, whatever the header order
\* and also when columns were appended during the run, and changes no other column.
C25_ColumnsInTheirPlace ==
    Committed => (TrackedColumnsStored /\ OtherColumnsKept)

(***************************************************************************)
(* The notifications of game_service: the achievement and release          *)
(* notifications of get_all_game_data, get_all_notifications_for_frontend  *)
(* and mark_notification_as_read, next to the wishlist calls.              *)
(***************************************************************************)

MaxNotifications == 2   \* notifications offered outside the promotion check

TIPO_CONQUISTA == "Conquista Desbloqueada"
TIPO_LANCAMENTO == "Lançamento Próximo"

STR_MARCO == <<"(", "M", "a", "r", "c", "o", ":">>

\* line 362: the message of an unlocked achievement
AchievementMessage(name) ==
    <<"V", "o", "c", "e^", " ", "d", "e", "s", "b", "l", "o", "q", "u", "e", "o", "u", " ", "a", " ", "c", "o", "n", "q", "u", "i", "s", "t", "a", ":", " ", "'">> \o name \o <<"'", "!">>

\* lines 401-409: the message of a release a week ahead, with its milestone
ReleaseMessage(name) ==
    <<"O", " ", "j", "o", "g", "o", " ", "'">> \o name \o <<"'", " ", "s", "e", "r", "a'", " ", "l", "a", "n", "c,", "a", "d", "o", " ", "e", "m", " ", "7", " ", "d", "i", "a", "s", "!", " ", "(", "M", "a", "r", "c", "o", ":", " ", "7", " ", "d", "i", "a", "s", ")">>

\* the names of the achievements of the sheet 'Conquistas' that are completed
AchievementNames == {<<"U", "m">>, <<"D", "e", "z">>}

\* lines 220-223: the message without its milestone
DisplayMessage(m) ==
    IF Contains(m, STR_MARCO)
    THEN LET at == CHOOSE i \in 1..Len(m) :
                      /\ SubSeq(m, i, i + Len(STR_MARCO) - 1) = STR_MARCO
                      /\ \A j \in 1..(i - 1) : SubSeq(m, j, j + Len(STR_MARCO) - 1) /= STR_MARCO
         IN  Strip(SubSeq(m, 1, at - 1))
    ELSE m

\* get_all_notifications_for_frontend, lines 214-233: the notifications as the frontend
\* gets them (their order aside)
get_all_notifications_for_frontend(notifications) ==
    [i \in 1..Len(notifications) |->
        [notifications[i] EXCEPT !.Mensagem = DisplayMessage(@)]]

\* the passing of time between two requests
Elapse ==
    /\ pass.pc \in {"idle", "done"}
    /\ pass.ticks < MaxAdvances
    /\ \E d \in {200} : clock' = clock + d
    /\ pass' = [pass EXCEPT !.ticks = @ + 1]
    /\ UNCHANGED <<sheet, history, cache, run, ghost, search, notes, agg, calc>>

\* the route of the notifications: get_all_notifications_for_frontend read through the cache
ReadNotifications ==
    /\ pass.pc \in {"idle", "done"}
    /\ \E readOk \in BOOLEAN :
          LET read == GsRead(notes.ncache, notes.rows, readOk)
          IN  /\ notes' = [notes EXCEPT !.ncache = read.cache]
              /\ pass' = [pass EXCEPT !.hit = read.hit,
                                      !.age = IF read.hit THEN clock - notes.ncache.at ELSE 0]
    /\ UNCHANGED <<sheet, history, clock, cache, run, ghost, search, agg, calc>>

\* get_all_game_data, lines 324 and 360-366 or 398-416: the notifications read for the
\* frontend, and an achievement or a release offered when that list does not hold it
Notify ==
    /\ pass.pc \in {"idle", "done"}
    /\ pass.calls < MaxNotifications
    /\ \E offer \in {[type |-> TIPO_CONQUISTA, message |-> AchievementMessage(a)] : a \in AchievementNames}
                     \cup {[type |-> TIPO_LANCAMENTO, message |-> ReleaseMessage(NAME_A)]} :
       \E readOk \in BOOLEAN : \E sheetOk \in BOOLEAN : \E readAgainOk \in BOOLEAN :
          LET read == GsRead(notes.ncache, notes.rows, readOk)
              existing_notifications == get_all_notifications_for_frontend(read.data)
              known == \E i \in 1..Len(existing_notifications) :
                          /\ existing_notifications[i].Tipo = offer.type
                          /\ existing_notifications[i].Mensagem = offer.message
              loaded == [notes EXCEPT !.ncache = read.cache]
              result == IF known THEN [n |-> loaded, success |-> FALSE]
                        ELSE _add_notification(loaded, sheetOk, readAgainOk, offer.type,
                                               offer.message, <<>>, <<>>)
          IN  /\ notes' = result.n
              /\ pass' = [pass EXCEPT !.calls = @ + 1,
                                      !.readFailed = @ \/ (~known /\ sheetOk /\ ~readAgainOk
                                             /\ ~GsRead(loaded.ncache, loaded.rows, readAgainOk).hit),
                                      !.last = [op |-> "add", type |-> offer.type,
                                                message |-> offer.message, id |-> 0,
                                                success |-> result.success,
                                                before |-> notes.rows]]
    /\ UNCHANGED <<sheet, history, clock, cache, run, ghost, search, agg, calc>>

\* mark_notification_as_read of game_service, lines 242-276
MarkAsRead ==
    /\ pass.pc \in {"idle", "done"}
    /\ \E notification_id \in 1..(Len(notes.rows) + 1) :
       \E sheetOk \in BOOLEAN : \E valuesOk \in BOOLEAN :
          LET matching == {i \in 1..Len(notes.rows) :
                             IntStr(notes.rows[i].ID) = IntStr(notification_id)}
              found == sheetOk /\ valuesOk /\ matching /= {}
              found_row_index == CHOOSE i \in matching : \A j \in matching : i <= j
          IN  /\ notes' = IF found
                          THEN [notes EXCEPT !.rows[found_row_index].Lida = TRUE,
                                             !.ncache = _invalidate_cache(@)]
                          ELSE notes
              /\ pass' = [pass EXCEPT !.last = [op |-> "mark", type |-> "", message |-> <<>>,
                                                id |-> notification_id, success |-> found,
                                                before |-> notes.rows]]
    /\ UNCHANGED <<sheet, history, clock, cache, run, ghost, search, agg, calc>>

NextNotify ==
    \/ Elapse
    \/ ReadNotifications
    \/ Notify
    \/ MarkAsRead

InitNotify ==
    /\ InitPromo
    /\ history = <<>>

SpecNotify == InitNotify /\ [][NextNotify]_vars

\* a promotion notification of the game of that name: its message quotes the name
OwnPromotion(x, wish_name) ==
    /\ x.Tipo = TIPO_PROMOCAO
    /\ \E platform \in {STR_STEAM, STR_PSN} :
          StartsWith(x.Mensagem, SubSeq(PromotionMessage(platform, wish_name, 0), 1,
                                        Len(PromotionMessage(platform, wish_name, 0)) - 5))

\* C28: in one get_all_game_data call at most one promotion notification is stored per
\* wish, the PSN price is not considered when the Steam price qualifies, and a promotion
\* is held back as a duplicate only when the sheet holds a promotion of that same game.
C28_OwnPromotionsOnly ==
    \A k \in 1..Len(pass.log) :
        LET e == pass.log[k]
        IN  /\ e.stored <= 1
            /\ e.steam => ~e.psn
            /\ e.suppressed
                  => \E i \in 1..Len(notes.rows) : OwnPromotion(notes.rows[i], e.wish.Nome)

\* the first two parts on their own
C28_OnePerGame ==
    \A k \in 1..Len(pass.log) : pass.log[k].stored <= 1 /\ (pass.log[k].steam => ~pass.log[k].psn)

\* no two rows of the notifications sheet have the same ID
IdsDistinct ==
    \A i \in 1..Len(notes.rows) : \A j \in 1..Len(notes.rows) :
        notes.rows[i].ID = notes.rows[j].ID => i = j

\* C27: after any sequence of _add_notification calls, also when the read of the
\* notifications fails or is served from the cache, no two rows of the notifications
\* sheet have the same ID.
C27_IdsDistinct ==
    IdsDistinct

\* as long as no read of the notifications has failed before an append, the IDs differ
C27_WhenReadsSucceed ==
    ~pass.readFailed => IdsDistinct

\* the rows hold that type and message
Holds(rows, type, message) ==
    \E i \in 1..Len(rows) : rows[i].Tipo = type /\ rows[i].Mensagem = message

\* no two notifications of a type other than promotion have the same type and message,
\* and an add of one the sheet already held returned success = False and changed nothing
AddedOnce ==
    /\ \A i \in 1..Len(notes.rows) : \A j \in 1..Len(notes.rows) :
          (/\ notes.rows[i].Tipo /= TIPO_PROMOCAO
           /\ notes.rows[i].Tipo = notes.rows[j].Tipo
           /\ notes.rows[i].Mensagem = notes.rows[j].Mensagem) => i = j
    /\ (pass.last.op = "add" /\ Holds(pass.last.before, pass.last.type, pass.last.message))
          => (~pass.last.success /\ notes.rows = pass.last.before)

\* C29: for the types other than promotion _add_notification is idempotent: the sheet
\* never holds two notifications of the same type and stored message, and a repeated add
\* returns success = False and leaves the sheet unchanged.
C29_AddIsIdempotent ==
    AddedOnce

\* as long as no read of the notifications has failed before an append
C29_WhenReadsSucceed ==
    ~pass.readFailed => AddedOnce

\* a release notification was offered a second time and held back
C29_RepeatedRelease ==
    /\ pass.last.op = "add"
    /\ pass.last.type = TIPO_LANCAMENTO
    /\ Holds(pass.last.before, pass.last.type, pass.last.message)
    /\ ~pass.last.success

\* the rows before the last mark_notification_as_read call, those of its ID marked as read
MarkedRows ==
    [i \in 1..Len(pass.last.before) |->
        IF pass.last.before[i].ID = pass.last.id
        THEN [pass.last.before[i] EXCEPT !.Lida = TRUE]
        ELSE pass.last.before[i]]

\* the last call marked the notification of its ID and nothing else, or found no such ID
MarkedThatRowOnly ==
    pass.last.op = "mark"
        => /\ pass.last.success => notes.rows = MarkedRows
           /\ ~pass.last.success => notes.rows = pass.last.before
           /\ (\A i \in 1..Len(pass.last.before) : pass.last.before[i].ID /= pass.last.id)
                 => ~pass.last.success

\* no step makes a read notification unread
StaysRead ==
    \A i \in 1..Len(notes.rows) : notes.rows[i].Lida => notes'.rows[i].Lida

\* C30: mark_notification_as_read(id) sets the read flag on exactly the row whose ID
\* equals id and changes no other cell; with no such row it returns success = False and
\* leaves the sheet unchanged; a second call changes nothing, and a read notification
\* never becomes unread.
C30_MarksExactlyThatRow ==
    []MarkedThatRowOnly /\ [][StaysRead]_vars

\* the same while the IDs of the sheet are distinct
C30_WhenIdsDistinct ==
    [](IdsDistinct => MarkedThatRowOnly) /\ [][StaysRead]_vars

\* a notification already read was marked again
C30_MarkedTwice ==
    /\ pass.last.op = "mark"
    /\ pass.last.success
    /\ \E i \in 1..Len(pass.last.before) :
          pass.last.before[i].ID = pass.last.id /\ pass.last.before[i].Lida
    /\ notes.rows = pass.last.before

(***************************************************************************)
(* The caches of game_service: a sheet read through _get_data_from_sheet   *)
(* after a write of game_service to that sheet.                            *)
(***************************************************************************)

NextCache ==
    \/ Elapse
    \/ UpdateWish
    \/ PassStart
    \/ PassGame
    \/ ReadNotifications

SpecCache == InitNotify /\ [][NextCache]_vars

\* the cached wishlist is the sheet 'Desejos' as a read would return it now
WishlistCacheCurrent ==
    notes.wcache.has
        => notes.wcache.data \in {get_all_records(sheet, numericise) : numericise \in BOOLEAN}

\* the cached notifications are the rows of the sheet 'Notificações'
NotificationsCacheCurrent ==
    notes.ncache.has => notes.ncache.data = notes.rows

C26_BatchCommitInvalidates ==
    Committed => ~cache.has

\* a cached wishlist was served some time after it was read
C26_ServedFromCache ==
    pass.hit /\ pass.age > 0

(***************************************************************************)
(* The conversions of price_scraper_service on their own: price text to    *)
(* float and back, and the title cleaning.                                 *)
(***************************************************************************)
MaxCleanCalls == 2

\* \w of the re module
IsWordChar(c) ==
    \/ c \in Digit \/ c = "_"
    \/ \E i \in 1..Len(LowerLetters) : c = LowerLetters[i] \/ c = UpperLetters[i]

\* \b before position i of s
WordBoundary(s, i) ==
    LET before == i > 1 /\ IsWordChar(s[i - 1])
        after == i <= Len(s) /\ IsWordChar(s[i])
    IN  before /= after

\* re.sub(r'\bword\b', '', s), scanning s from position i
RECURSIVE RemoveWord(_, _, _)
RemoveWord(s, word, i) ==
    IF i > Len(s) THEN <<>>
    ELSE IF /\ i + Len(word) - 1 <= Len(s)
            /\ SubSeq(s, i, i + Len(word) - 1) = word
            /\ WordBoundary(s, i) /\ WordBoundary(s, i + Len(word))
    THEN RemoveWord(s, word, i + Len(word))
    ELSE <<s[i]>> \o RemoveWord(s, word, i + 1)

\* re.sub(r'\(.*?\)', '', s) and re.sub(r'\[.*?\]', '', s), scanning s from position i
RECURSIVE RemoveBracketed(_, _, _, _)
RemoveBracketed(s, open, close, i) ==
    IF i > Len(s) THEN <<>>
    ELSE IF s[i] = open /\ \E j \in (i + 1)..Len(s) : s[j] = close
    THEN LET j == CHOOSE k \in (i + 1)..Len(s) :
                      s[k] = close /\ \A l \in (i + 1)..(k - 1) : s[l] /= close
         IN  RemoveBracketed(s, open, close, j + 1)
    ELSE <<s[i]>> \o RemoveBracketed(s, open, close, i + 1)

\* re.sub(r'\s+', ' ', s)
RECURSIVE CollapseSpaces(_)
CollapseSpaces(s) ==
    IF s = <<>> THEN <<>>
    ELSE IF s[1] = " " /\ Len(s) > 1 /\ s[2] = " " THEN CollapseSpaces(Tail(s))
    ELSE <<s[1]>> \o CollapseSpaces(Tail(s))

\* lines 162-166, the bounded keywords in the order of the list
keywords_to_remove ==
    <<<<"p", "s", "4">>, <<"p", "s", "5">>,
      <<"p", "l", "a", "y", "s", "t", "a", "t", "i", "o", "n">>,
      <<"d", "e", "l", "u", "x", "e", " ", "e", "d", "i", "t", "i", "o", "n">>,
      <<"s", "p", "e", "c", "i", "a", "l", " ", "e", "d", "i", "t", "i", "o", "n">>,
      <<"s", "t", "a", "n", "d", "a", "r", "d", " ", "e", "d", "i", "t", "i", "o", "n">>,
      <<"u", "l", "t", "i", "m", "a", "t", "e", " ", "e", "d", "i", "t", "i", "o", "n">>,
      <<"r", "e", "m", "a", "s", "t", "e", "r", "e", "d">>, <<"g", "o", "t", "y">>,
      <<"g", "a", "m", "e", " ", "o", "f", " ", "t", "h", "e", " ", "y", "e", "a", "r">>,
      <<"e", "d", "i", "t", "i", "o", "n">>>>

RECURSIVE RemoveKeywords(_, _)
RemoveKeywords(s, k) ==
    IF k > Len(keywords_to_remove) THEN s
    ELSE RemoveKeywords(RemoveWord(s, keywords_to_remove[k], 1), k + 1)

\* _clean_game_title (lines 160-177)
_clean_game_title(title) ==
    LET lowered == Lower(title)
        worded == RemoveKeywords(lowered, 1)
        marked == Replace(Replace(worded, <<"TM">>, <<>>), <<"RG">>, <<>>)
        round == RemoveBracketed(marked, "(", ")", 1)
        square == RemoveBracketed(round, "[", "]", 1)
    IN  Strip(CollapseSpaces(square))

\* the pieces titles are made of ("TM" and "RG" are the one-character trademark and registered signs)
TitlePieces ==
    { <<>>,
      <<"H", "a", "l", "o">>, <<" ">>, <<"P", "S">>, <<"4">>, <<"P", "S", "4">>,
      <<"D", "e", "l", "u", "x", "e">>, <<"E", "d", "i", "t", "i", "o", "n">>,
      <<"G", "O", "T", "Y">>, <<"(", "x", ")">>, <<"(">>, <<")">>, <<"[">>, <<"]">>,
      <<"TM">> }

Titles == {a \o b \o c : a \in TitlePieces, b \in TitlePieces, c \in TitlePieces}

\* 1299 as 1.299
RECURSIVE Grouped(_)
Grouped(n) ==
    IF n < 1000 THEN IntStr(n)
    ELSE Grouped(n \div 1000)
           \o <<".", DigitChar((n % 1000) \div 100), DigitChar((n % 100) \div 10),
                DigitChar(n % 10)>>

\* a price in the locale's notation: optional prefix, '.' between thousands, ',' decimals
PriceText(parts) == parts.prefix \o Grouped(parts.whole) \o parts.cents

PriceParts ==
    [prefix : {<<>>, <<"R", "$">>, STR_RS \o <<" ">>},
     whole : {0, 7, 12, 199, 1299, 10000, 1000000},
     cents : {<<>>, <<",", "0", "0">>, <<",", "0", "1">>, <<",", "5", "0">>,
              <<",", "9", "0">>, <<",", "9", "9">>, <<",", "5">>}]

InitPure ==
    /\ sheet = [hdr |-> <<>>, rows |-> <<>>]
    /\ history = <<>>
    /\ clock = 0
    /\ cache = [has |-> FALSE, data |-> <<>>, at |-> 0]
    /\ run = IdleRun
    /\ ghost = InitGhost
    /\ search = IdleSearch
    /\ notes = NoNotes
    /\ pass = IdlePass
    /\ agg = IdleAggregator
    /\ \/ \E parts \in PriceParts :
             calc = [IdleCalc EXCEPT !.pc = "text", !.parts = parts, !.text = PriceText(parts)]
       \/ \E title \in Titles : calc = [IdleCalc EXCEPT !.pc = "title", !.title = title]

CallCleanPrice ==
    /\ calc.pc = "text"
    /\ calc' = [calc EXCEPT !.pc = "parsed", !.price = clean_price_to_float(PyStr(calc.text))]
    /\ UNCHANGED <<sheet, history, clock, cache, run, ghost, search, notes, pass, agg>>

CallFormatPrice ==
    /\ calc.pc = "parsed"
    /\ calc' = [calc EXCEPT !.pc = "shown", !.shown = format_float_to_price_str(calc.price)]
    /\ UNCHANGED <<sheet, history, clock, cache, run, ghost, search, notes, pass, agg>>

CallCleanTitle ==
    /\ calc.pc = "title"
    /\ Len(calc.outs) < MaxCleanCalls
    /\ LET argument == IF calc.outs = <<>> THEN calc.title ELSE calc.outs[Len(calc.outs)]
       IN  calc' = [calc EXCEPT !.outs = Append(@, _clean_game_title(argument))]
    /\ UNCHANGED <<sheet, history, clock, cache, run, ghost, search, notes, pass, agg>>

NextPure ==
    \/ CallCleanPrice
    \/ CallFormatPrice
    \/ CallCleanTitle

SpecPure == InitPure /\ [][NextPure]_vars

HasCents(parts) == \E i \in 1..Len(parts.cents) : parts.cents[i] \in Digit \ {"0"}

\* C15: a price text in the locale's notation is shown, after clean_price_to_float and
\* format_float_to_price_str, as the decimal text of its ceiling: one more than the whole
\* part when there are cents, the whole part itself when there are none.
C15_ShownIsCeiling ==
    calc.pc = "shown" =>
        calc.shown = IntStr(calc.parts.whole + (IF HasCents(calc.parts) THEN 1 ELSE 0))

C15_Witness ==
    /\ calc.pc = "shown"
    /\ calc.parts.whole = 1299 /\ calc.parts.cents = <<",", "9", "0">>
    /\ calc.parts.prefix /= <<>>
    /\ calc.shown = <<"1", "3", "0", "0">>

\* C16: _clean_game_title is idempotent, cleaning a cleaned title changes nothing, and
\* the empty title is cleaned to the empty title.
C16_CleanTitleIdempotent ==
    /\ _clean_game_title(<<>>) = <<>>
    /\ Len(calc.outs) >= 2 => calc.outs[2] = calc.outs[1]

(***************************************************************************)
(* Not found and free.                                                     *)
(***************************************************************************)
PriceColumns == {C_SA, C_SL, C_PA, C_PL}

\* the float the promotion check reads for a price column of a processed wish
ReadByPromotionCheck(wish, col) ==
    CASE col = C_SA -> wish.SA [] col = C_SL -> wish.SL [] col = C_PA -> wish.PA
      [] col = C_PL -> wish.PL

\* C14: not found and the free price 0 are never conflated: free text parses to 0 and
\* not-found text to the not-found value, format followed by parse maps each to itself,
\* and a cell that stores not found is never read by the promotion check as the price 0.
C14_NotFoundIsNotFree ==
    /\ clean_price_to_float(PyStr(STR_GRATUITO)) = Fin(0)
    /\ clean_price_to_float(PyStr(STR_NAO_ENCONTRADO)) = INF
    /\ clean_price_to_float(PyStr(format_float_to_price_str(Fin(0)))) = Fin(0)
    /\ clean_price_to_float(PyStr(format_float_to_price_str(INF))) = INF
    /\ pass.pc = "loop" =>
          \A k \in 1..Len(pass.list) : \A r \in 1..Len(sheet.rows) : \A col \in PriceColumns :
              (/\ StoredCell(sheet, r, C_NOME) = pass.list[k].Nome
               /\ StoredPrice(sheet, r, col) = INF)
              => ReadByPromotionCheck(pass.list[k], col) /= 0
====
